---- MODULE Spec2Model ----
(***************************************************************************)
(* Acquisition-and-alarm pipeline of the SCADA backend:                    *)
(*   app/services/engine.py          polling scheduler                     *)
(*   app/services/mqtt_listener.py   external bus listener                 *)
(*   app/services/alarms/engine.py   AlarmEngine                           *)
(*   app/services/bridges/*.py       drivers                               *)
(* The two ingestion tasks run on one asyncio loop: a step of the model is *)
(* the code between two suspension points (await of real I/O).             *)
(***************************************************************************)
EXTENDS Integers, Sequences, FiniteSets, TLC

\* ------------------------------------------------------------------ bounds
MaxReadings == 2      \* readings per run of the two ingestion paths
MaxSeq == 5           \* readings per run of the scheduler alone
MaxUpdates == 1       \* tag administration requests per run
MaxAlarmUpdates == 2  \* alarm definition requests per run
MaxMessages == 2      \* messages the listener receives per run
MaxLosses == 1        \* connection losses per run
MaxCalls == 5         \* factory and driver calls per run
MaxDrivers == 2       \* ModbusDriver instances per run
MaxClients == 2       \* ModbusClient objects per run
MaxCycles == 3        \* polling cycles of the two-definition comparison
MaxRequests == 3      \* tag API requests per run
MaxRows == 2          \* rows of the tags table of the tag API

\* ------------------------------------------------------------ value domain
\* process values and limits seen by the model (floats of the code, sampled)
Values == {5, 50, 80, 95}
LisValues == {50, 95}
LimitKeys == {"HH", "LL", "H", "L"}
FullLimits == [HH |-> 90, LL |-> 10, H |-> 70, L |-> 30]
SeqLimits == [HH |-> 90, LL |-> 10]

\* the registry of the model: tag 1 is an MQTT tag, tag 2 is simulated
Tags == {1, 2}
Tasks == {"sched", "lis"}
Protocols == {"modbus", "opcua", "simulated", "mqtt"}
PullProtocols == {"modbus", "opcua", "simulated"}

NoDef == [id |-> 0, is_active |-> FALSE, limits |-> <<>>, deadband |-> 0]

VARIABLES
  registry,        \* the tag table: [Tags -> tag row], joined alarm_definition
  nextDefId,       \* next primary key of an AlarmDefinition row
  nUpdates,        \* CRUD requests served so far
  nReadings,       \* readings that entered an ingestion path so far (also the clock)
  readingLimit,    \* readings after which the run of the model stops
  schedPc,         \* position of data_acquisition_loop
  schedTags,       \* `tags` of the current cycle (sequence of tag rows)
  schedIdx,        \* index of the tag of the for loop
  schedRaw,        \* raw_value of the current tag
  cycleEligible,   \* ids of the tags that were enabled and pull-based when the cycle's query ran
  cycleEvents,     \* canonical events published in the current cycle, per tag
  cycleTried,      \* tags whose loop body was entered in the current cycle
  cycleReadOk,     \* tags whose read returned a value in the current cycle
  topicMap,        \* _topic_map of the listener: topic -> sequence of tag rows
  lisPc,           \* position of the listener's message handling
  lisTags,         \* `tags` of process_external_message
  lisIdx,          \* index of the tag of its for loop
  lisValue,        \* value extracted for the current tag
  lisPayload,      \* payload of the message being processed
  subscribed,      \* topics the listener's broker session is subscribed to
  lisPending,      \* keys of the subscribe loop still to come
  nLosses,         \* connection losses and failed connects so far
  inbox,           \* messages the listener has received: topic, payload, `tags` found
  refreshTask,     \* the task running _periodic_topic_refresh: "none" or "running"
  lastLoad,        \* outcome of the latest load_topic_map call: "none", "ok", "failed"
  drivers,         \* ModbusDriver instances built by get_driver: key, connected, client
  connections,     \* ModbusDriver._connections: set of <<key, client>> entries
  clients,         \* every ModbusClient object created: key, is_open
  nCalls,          \* calls of the factory and of driver methods so far
  lastCall,        \* the latest such call: op, driver, arg, result
  reachable,       \* the hosts whose device accepts connections and answers
  activeAlarms,    \* AlarmEngine._active_alarms: tag id -> event (0: absent)
  alarmEvents,     \* every AlarmEvent object created so far
  alarmNotifs,     \* calls of mqtt_client.publish_alarm, in order
  callbackCalls,   \* invocations of on_alarm_callback, in order
  onAlarmCallback, \* whether AlarmEngine.on_alarm_callback is set
  tagRows,         \* the tags table as the tag API sees it: sequence of rows
  apiReqs,         \* the tag API requests in progress, per handler slot
  nRequests,       \* tag API requests accepted so far
  apiLast,         \* the latest response of the tag API
  sessions,        \* tasks whose MQTTClient.publish call holds a connected aiomqtt.Client
  histPc,          \* position of HistoryService: "off", "connect", "subscribed"
  histMap,         \* HistoryService._topic_map: internal topic -> tag id
  histSeen,        \* per publishing task: its events the history session is past
  histMetrics,     \* rows appended by save_metric called from HistoryService
  evPc,            \* per task: position inside AlarmEngine.evaluate
  evFrame,         \* per task: locals of the evaluate call in progress
  evReturn,        \* per task: result of the last finished evaluate call
  busEvents,       \* per task: canonical events handed to mqtt_client.publish, in order
  metrics          \* per task: rows appended by save_metric, in order

vars == <<registry, nextDefId, nUpdates, nReadings, readingLimit, schedPc, schedTags, schedIdx,
          schedRaw, cycleEligible, cycleEvents, cycleTried, cycleReadOk,
          topicMap, lisPc, lisTags, lisIdx, lisValue, lisPayload, subscribed,
          lisPending, nLosses, inbox, refreshTask, lastLoad,
          drivers, connections, clients, nCalls, lastCall, reachable,
          activeAlarms, alarmEvents, alarmNotifs, callbackCalls, onAlarmCallback,
          tagRows, apiReqs, nRequests, apiLast, sessions,
          histPc, histMap, histSeen, histMetrics,
          evPc, evFrame, evReturn, busEvents, metrics>>

regVars == <<registry, nextDefId, nUpdates, readingLimit>>
schedVars == <<schedPc, schedTags, schedIdx, schedRaw, cycleEligible, cycleEvents,
               cycleTried, cycleReadOk>>
lisVars == <<topicMap, lisPc, lisTags, lisIdx, lisValue, lisPayload, subscribed,
             lisPending, nLosses, inbox, refreshTask, lastLoad>>
engineVars == <<activeAlarms, alarmEvents, alarmNotifs, callbackCalls,
                evPc, evFrame, evReturn>>
outVars == <<busEvents, metrics>>
bridgeVars == <<drivers, connections, clients, nCalls, lastCall, reachable>>
apiVars == <<tagRows, apiReqs, nRequests, apiLast>>
sessVars == <<sessions>>
histVars == <<histPc, histMap, histSeen, histMetrics>>
serviceVars == <<apiVars, sessVars, histVars>>

\* ------------------------------------------------------------------ helpers
RECURSIVE SortedSeq(_)
SortedSeq(S) ==
  IF S = {} THEN <<>>
  ELSE LET m == CHOOSE x \in S : \A y \in S : x <= y
       IN <<m>> \o SortedSeq(S \ {m})

RowsOf(reg, S) == [i \in 1..Len(SortedSeq(S)) |-> reg[SortedSeq(S)[i]]]

NoRaw == [kind |-> "none", v |-> 0]
NoPayload == [kind |-> "none", fields |-> <<>>, v |-> 0]

\* storage.py lines 16-27: save_metric inserts one row per call, whatever the
\* rows already stored
SaveMetricDedup(log, tag_id, value) ==
  IF Len(log) > 0 /\ log[Len(log)] = [tag_id |-> tag_id, value |-> value]
  THEN log
  ELSE Append(log, [tag_id |-> tag_id, value |-> value])

SaveMetric(log, tag_id, value) == Append(log, [tag_id |-> tag_id, value |-> value])

\* ------------------------------------------------------------ AlarmEngine
NoFrame == [tag |-> 0, alarm |-> 0, severity |-> "", limit |-> ""]

\* evaluate, lines 47-72: the if/elif chain over the limits
ClassifySwapped(limits, value) ==
  IF "H" \in DOMAIN limits /\ value >= limits["H"] THEN "H"
  ELSE IF "L" \in DOMAIN limits /\ value <= limits["L"] THEN "L"
  ELSE IF "HH" \in DOMAIN limits /\ value >= limits["HH"] THEN "HH"
  ELSE IF "LL" \in DOMAIN limits /\ value <= limits["LL"] THEN "LL"
  ELSE "NORMAL"

Classify(limits, value) ==
  IF "HH" \in DOMAIN limits /\ value >= limits["HH"] THEN "HH"
  ELSE IF "LL" \in DOMAIN limits /\ value <= limits["LL"] THEN "LL"
  ELSE IF "H" \in DOMAIN limits /\ value >= limits["H"] THEN "H"
  ELSE IF "L" \in DOMAIN limits /\ value <= limits["L"] THEN "L"
  ELSE "NORMAL"

SeverityOf(limit) == IF limit \in {"HH", "LL"} THEN "critical" ELSE "warning"

\* _create_alarm without the membership test of line 97
CreateAlarmUnguarded(task, tag, value, limit) ==
  /\ alarmEvents' = Append(alarmEvents,
                           [definition_id |-> tag.alarm_definition.id,
                            trigger_value |-> value,
                            status |-> "ACTIVE_UNACK",
                            start_time |-> nReadings,
                            end_time |-> 0])
  /\ activeAlarms' = [activeAlarms EXCEPT ![tag.id] = Len(alarmEvents) + 1]
  /\ evPc' = [evPc EXCEPT ![task] = "create_publish"]
  /\ evFrame' = [evFrame EXCEPT ![task] =
                   [tag |-> tag.id, alarm |-> Len(alarmEvents) + 1,
                    severity |-> SeverityOf(limit), limit |-> limit]]
  /\ UNCHANGED evReturn

\* _create_alarm refreshing the open event with the new sample
CreateAlarmRetriggers(task, tag, value, limit) ==
  IF activeAlarms[tag.id] = 0
  THEN CreateAlarmUnguarded(task, tag, value, limit)
  ELSE /\ alarmEvents' = [alarmEvents EXCEPT ![activeAlarms[tag.id]].trigger_value = value]
       /\ evReturn' = [evReturn EXCEPT ![task] = 0]
       /\ UNCHANGED <<activeAlarms, evPc, evFrame>>

\* _create_alarm re-arming an acknowledged event on a new matching sample
CreateAlarmResetsAck(task, tag, value, limit) ==
  IF activeAlarms[tag.id] = 0
  THEN CreateAlarmUnguarded(task, tag, value, limit)
  ELSE /\ alarmEvents' = [alarmEvents EXCEPT ![activeAlarms[tag.id]].status = "ACTIVE_UNACK"]
       /\ evReturn' = [evReturn EXCEPT ![task] = 0]
       /\ UNCHANGED <<activeAlarms, evPc, evFrame>>

\* _create_alarm reopening the definition's last resolved event
CreateAlarmReopens(task, tag, value, limit) ==
  LET old == {e \in 1..Len(alarmEvents) :
                /\ alarmEvents[e].definition_id = tag.alarm_definition.id
                /\ alarmEvents[e].status = "RESOLVED"}
  IN  IF activeAlarms[tag.id] = 0 /\ old # {}
      THEN LET e == CHOOSE x \in old : \A y \in old : y <= x IN
           /\ alarmEvents' = [alarmEvents EXCEPT ![e] =
                                [@ EXCEPT !.status = "ACTIVE_UNACK",
                                          !.trigger_value = value,
                                          !.end_time = 0]]
           /\ activeAlarms' = [activeAlarms EXCEPT ![tag.id] = e]
           /\ evPc' = [evPc EXCEPT ![task] = "create_publish"]
           /\ evFrame' = [evFrame EXCEPT ![task] =
                            [tag |-> tag.id, alarm |-> e,
                             severity |-> SeverityOf(limit), limit |-> limit]]
           /\ UNCHANGED evReturn
      ELSE IF activeAlarms[tag.id] = 0
      THEN CreateAlarmUnguarded(task, tag, value, limit)
      ELSE /\ evReturn' = [evReturn EXCEPT ![task] = 0]
           /\ UNCHANGED <<alarmEvents, activeAlarms, evPc, evFrame>>

\* _create_alarm, lines 88-98: the event object and its registration under the
\* tag's key; the call suspends at publish_alarm
CreateAlarm(task, tag, value, limit) ==
  IF activeAlarms[tag.id] = 0
  THEN /\ alarmEvents' = Append(alarmEvents,
                                [definition_id |-> tag.alarm_definition.id,
                                 trigger_value |-> value,
                                 status |-> "ACTIVE_UNACK",
                                 start_time |-> nReadings,
                                 end_time |-> 0])
       /\ activeAlarms' = [activeAlarms EXCEPT ![tag.id] = Len(alarmEvents) + 1]
       /\ evPc' = [evPc EXCEPT ![task] = "create_publish"]
       /\ evFrame' = [evFrame EXCEPT ![task] =
                        [tag |-> tag.id, alarm |-> Len(alarmEvents) + 1,
                         severity |-> SeverityOf(limit), limit |-> limit]]
       /\ UNCHANGED evReturn
  ELSE /\ evReturn' = [evReturn EXCEPT ![task] = 0]
       /\ UNCHANGED <<alarmEvents, activeAlarms, evPc, evFrame>>

\* _resolve_alarm marking the event but leaving it registered under the key
ResolveAlarmKeepsKey(task, tag) ==
  /\ alarmEvents' = [alarmEvents EXCEPT ![activeAlarms[tag.id]] =
                       [@ EXCEPT !.status = "RESOLVED", !.end_time = nReadings]]
  /\ evPc' = [evPc EXCEPT ![task] = "resolve_publish"]
  /\ evFrame' = [evFrame EXCEPT ![task] =
                   [tag |-> tag.id, alarm |-> activeAlarms[tag.id],
                    severity |-> "INFO", limit |-> "NORMAL"]]
  /\ UNCHANGED <<activeAlarms, evReturn>>

\* _resolve_alarm, lines 119-122: pop the event and mark it; the call suspends
\* at publish_alarm
ResolveAlarm(task, tag) ==
  /\ alarmEvents' = [alarmEvents EXCEPT ![activeAlarms[tag.id]] =
                       [@ EXCEPT !.status = "RESOLVED", !.end_time = nReadings]]
  /\ activeAlarms' = [activeAlarms EXCEPT ![tag.id] = 0]
  /\ evPc' = [evPc EXCEPT ![task] = "resolve_publish"]
  /\ evFrame' = [evFrame EXCEPT ![task] =
                   [tag |-> tag.id, alarm |-> activeAlarms[tag.id],
                    severity |-> "INFO", limit |-> "NORMAL"]]
  /\ UNCHANGED evReturn

\* evaluate, lines 31-79, up to its first suspension point
\* an evaluation that resolves only once the value has retreated from every
\* limit by the definition's deadband
EvaluateWithDeadband(task, tag, value) ==
  /\ UNCHANGED <<alarmNotifs, callbackCalls>>
  /\ IF tag.alarm_definition.id = 0 \/ ~tag.alarm_definition.is_active
     THEN /\ evReturn' = [evReturn EXCEPT ![task] = 0]
          /\ UNCHANGED <<alarmEvents, activeAlarms, evPc, evFrame>>
     ELSE LET limit == Classify(tag.alarm_definition.limits, value)
              db == tag.alarm_definition.deadband
              lim == tag.alarm_definition.limits
              retreated ==
                /\ \A k \in DOMAIN lim \cap {"HH", "H"} : value <= lim[k] - db
                /\ \A k \in DOMAIN lim \cap {"LL", "L"} : value >= lim[k] + db
          IN
          IF limit = "NORMAL"
          THEN IF activeAlarms[tag.id] # 0 /\ retreated
               THEN ResolveAlarm(task, tag)
               ELSE /\ evReturn' = [evReturn EXCEPT ![task] = 0]
                    /\ UNCHANGED <<alarmEvents, activeAlarms, evPc, evFrame>>
          ELSE CreateAlarm(task, tag, value, limit)

\* an evaluation that closes the open event of a tag whose definition is
\* missing or inactive
EvaluateInactiveResolves(task, tag, value) ==
  /\ UNCHANGED <<alarmNotifs, callbackCalls>>
  /\ IF tag.alarm_definition.id = 0 \/ ~tag.alarm_definition.is_active
     THEN IF activeAlarms[tag.id] # 0
          THEN ResolveAlarm(task, tag)
          ELSE /\ evReturn' = [evReturn EXCEPT ![task] = 0]
               /\ UNCHANGED <<alarmEvents, activeAlarms, evPc, evFrame>>
     ELSE LET limit == Classify(tag.alarm_definition.limits, value) IN
          IF limit = "NORMAL"
          THEN IF activeAlarms[tag.id] # 0
               THEN ResolveAlarm(task, tag)
               ELSE /\ evReturn' = [evReturn EXCEPT ![task] = 0]
                    /\ UNCHANGED <<alarmEvents, activeAlarms, evPc, evFrame>>
          ELSE CreateAlarm(task, tag, value, limit)

Evaluate(task, tag, value) ==
  /\ UNCHANGED <<alarmNotifs, callbackCalls>>
  /\ IF tag.alarm_definition.id = 0 \/ ~tag.alarm_definition.is_active
     THEN /\ evReturn' = [evReturn EXCEPT ![task] = 0]
          /\ UNCHANGED <<alarmEvents, activeAlarms, evPc, evFrame>>
     ELSE LET limit == Classify(tag.alarm_definition.limits, value) IN
          IF limit = "NORMAL"
          THEN IF activeAlarms[tag.id] # 0
               THEN ResolveAlarm(task, tag)
               ELSE /\ evReturn' = [evReturn EXCEPT ![task] = 0]
                    /\ UNCHANGED <<alarmEvents, activeAlarms, evPc, evFrame>>
          ELSE CreateAlarm(task, tag, value, limit)

\* the caller's code after `await alarm_engine.evaluate(...)`: the next
\* iteration of its for loop (engine.py line 49, mqtt_listener.py line 136)
SchedNextTag ==
  /\ schedIdx' = schedIdx + 1
  /\ schedPc' = IF schedIdx < Len(schedTags) THEN "read" ELSE "sleep"
  /\ schedRaw' = [kind |-> "none", v |-> 0]
  /\ UNCHANGED <<schedTags, cycleEligible, cycleEvents, cycleTried, cycleReadOk>>

LisNextTag ==
  /\ lisValue' = 0
  /\ IF lisIdx < Len(lisTags)
     THEN /\ lisIdx' = lisIdx + 1
          /\ lisPc' = "extract"
          /\ UNCHANGED <<lisTags, lisPayload>>
     ELSE /\ lisIdx' = 1
          /\ lisPc' = "idle"
          /\ lisTags' = <<>>
          /\ lisPayload' = NoPayload
  /\ UNCHANGED <<topicMap, subscribed, lisPending, nLosses, inbox, refreshTask, lastLoad>>

Resume(task) ==
  IF task = "sched" THEN SchedNextTag /\ UNCHANGED lisVars
  ELSE LisNextTag /\ UNCHANGED schedVars

\* _create_alarm, lines 101-106: publish_alarm has completed
EvalPublishActiveReturns(task) ==
  /\ evPc[task] = "create_publish"
  /\ alarmNotifs' = Append(alarmNotifs,
                           [alarm_id |-> evFrame[task].tag,
                            severity |-> evFrame[task].severity,
                            limit |-> evFrame[task].limit,
                            status |-> "ACTIVE"])
  /\ IF onAlarmCallback
     THEN /\ evPc' = [evPc EXCEPT ![task] = "create_callback"]
          /\ UNCHANGED <<evFrame, evReturn, schedVars, lisVars>>
     ELSE /\ evPc' = [evPc EXCEPT ![task] = "idle"]
          /\ evReturn' = [evReturn EXCEPT ![task] = evFrame[task].alarm]
          /\ evFrame' = [evFrame EXCEPT ![task] = NoFrame]
          /\ Resume(task)
  /\ UNCHANGED <<activeAlarms, alarmEvents, callbackCalls, onAlarmCallback, apiVars, histVars, bridgeVars,
                 regVars, nReadings, outVars>>

EvalPublishActive(task) == EvalPublishActiveReturns(task) /\ UNCHANGED sessVars

\* _create_alarm, lines 109-113: the callback has completed; return alarm
EvalCallback(task) ==
  /\ evPc[task] = "create_callback"
  /\ callbackCalls' = Append(callbackCalls, evFrame[task].alarm)
  /\ evPc' = [evPc EXCEPT ![task] = "idle"]
  /\ evReturn' = [evReturn EXCEPT ![task] = evFrame[task].alarm]
  /\ evFrame' = [evFrame EXCEPT ![task] = NoFrame]
  /\ Resume(task)
  /\ UNCHANGED <<activeAlarms, alarmEvents, alarmNotifs, onAlarmCallback, serviceVars, bridgeVars,
                 regVars, nReadings, outVars>>

\* _resolve_alarm, lines 125-132: publish_alarm has completed; evaluate
\* returns None (line 72)
EvalPublishNormalReturns(task) ==
  /\ evPc[task] = "resolve_publish"
  /\ alarmNotifs' = Append(alarmNotifs,
                           [alarm_id |-> evFrame[task].tag,
                            severity |-> "INFO",
                            limit |-> "NORMAL",
                            status |-> "NORMAL"])
  /\ evPc' = [evPc EXCEPT ![task] = "idle"]
  /\ evReturn' = [evReturn EXCEPT ![task] = 0]
  /\ evFrame' = [evFrame EXCEPT ![task] = NoFrame]
  /\ Resume(task)
  /\ UNCHANGED <<activeAlarms, alarmEvents, callbackCalls, onAlarmCallback, apiVars, histVars, bridgeVars,
                 regVars, nReadings, outVars>>
\* -------------------------------------------------------- polling scheduler
\* engine.py lines 30-41: the registry query of a cycle
PollQueryNoEnabledFilter(reg) ==
  RowsOf(reg, {t \in Tags : reg[t].source_protocol \in PullProtocols})

EvalPublishNormal(task) == EvalPublishNormalReturns(task) /\ UNCHANGED sessVars

PollQuery(reg) ==
  RowsOf(reg, {t \in Tags : reg[t].is_enabled
                            /\ reg[t].source_protocol \in PullProtocols})

\* factory.py lines 23-41: the driver class for a protocol identifier
GetDriver(protocol) ==
  IF protocol = "modbus" THEN "ModbusDriver"
  ELSE IF protocol = "opcua" THEN "OpcUaDriver"
  ELSE IF protocol \in {"simulated", "simulator"} THEN "SimulatorDriver"
  ELSE "ValueError"

\* what connect + read_tag + disconnect of a driver can give the scheduler:
\* a value, a list of registers (Modbus count > 1), None, or an exception
SimulatorOutcomes == {[kind |-> "value", v |-> x] : x \in Values}

ModbusOutcomes ==
  {[kind |-> "value", v |-> x] : x \in Values}
    \cup {[kind |-> "list", v |-> 0], [kind |-> "none", v |-> 0]}

OpcUaOutcomes ==
  {[kind |-> "value", v |-> x] : x \in Values}
    \cup {[kind |-> "none", v |-> 0], [kind |-> "raise", v |-> 0]}

ReadOutcomes(protocol) ==
  IF GetDriver(protocol) = "SimulatorDriver" THEN SimulatorOutcomes
  ELSE IF GetDriver(protocol) = "ModbusDriver" THEN ModbusOutcomes
  ELSE IF GetDriver(protocol) = "OpcUaDriver" THEN OpcUaOutcomes
  ELSE {[kind |-> "raise", v |-> 0]}

\* engine.py lines 27-46 and 101-104: fetch the registry; an exception of the
\* query, or an empty result, leads to the 5 s sleep
SchedFetch(dbOk) ==
  /\ schedPc = "fetch"
  /\ IF dbOk
     THEN /\ schedTags' = PollQuery(registry)
          /\ schedPc' = IF Len(PollQuery(registry)) = 0 THEN "backoff" ELSE "read"
     ELSE /\ schedTags' = <<>>
          /\ schedPc' = "backoff"
  /\ cycleEligible' = {t \in Tags : registry[t].is_enabled
                                    /\ registry[t].source_protocol # "mqtt"}
  /\ schedIdx' = 1
  /\ schedRaw' = NoRaw
  /\ cycleEvents' = [t \in Tags |-> 0]
  /\ cycleTried' = {}
  /\ cycleReadOk' = {}
  /\ UNCHANGED <<regVars, nReadings, lisVars, engineVars, onAlarmCallback, serviceVars, bridgeVars, outVars>>

\* how the loop body's exception handler ends an iteration (lines 94-95):
\* the first variant lets the exception reach the outer handler (lines 101-104)
SchedTagFailedAbortsCycle ==
  /\ schedPc' = "backoff"
  /\ schedRaw' = NoRaw
  /\ UNCHANGED <<schedIdx, schedTags, cycleEligible, cycleEvents>>

SchedTagFailed ==
  /\ schedIdx' = schedIdx + 1
  /\ schedPc' = IF schedIdx < Len(schedTags) THEN "read" ELSE "sleep"
  /\ schedRaw' = NoRaw
  /\ UNCHANGED <<schedTags, cycleEligible, cycleEvents>>

\* the drivers whose connect and read_tag suspend the scheduler task: Modbus
\* runs its blocking socket calls, with a 3 s timeout, in asyncio.to_thread
\* (modbus.py lines 66-75 and 126-141); the simulator's coroutines never yield
BlockingDrivers == {"ModbusDriver", "OpcUaDriver"}

\* engine.py lines 50-60: the driver is built and the task is suspended in
\* await driver.connect() or await driver.read_tag(...) until the device
\* answers or the driver's timeout expires
SchedBeginRead ==
  /\ schedPc = "read"
  /\ GetDriver(schedTags[schedIdx].source_protocol) \in BlockingDrivers
  /\ schedPc' = "reading"
  /\ UNCHANGED <<schedTags, schedIdx, schedRaw, cycleEligible, cycleEvents,
                 cycleTried, cycleReadOk>>
  /\ UNCHANGED <<regVars, nReadings, lisVars, engineVars, onAlarmCallback, serviceVars, bridgeVars, outVars>>

\* a loop body without the test of line 65: a read that returned None goes
\* on as the value 0
SchedReadReturnsTreatsNoneAsZero(out) ==
  /\ \/ schedPc = "reading"
     \/ /\ schedPc = "read"
        /\ GetDriver(schedTags[schedIdx].source_protocol) \notin BlockingDrivers
  /\ out \in ReadOutcomes(schedTags[schedIdx].source_protocol)
  /\ cycleTried' = cycleTried \cup {schedTags[schedIdx].id}
  /\ IF out.kind = "raise"
     THEN /\ SchedTagFailed
          /\ UNCHANGED <<cycleReadOk, nReadings>>
     ELSE IF out.kind = "none"
     THEN /\ schedRaw' = [kind |-> "value", v |-> 0]
          /\ schedPc' = "publish"
          /\ UNCHANGED <<schedIdx, schedTags, cycleEligible, cycleEvents, cycleReadOk,
                         nReadings>>
     ELSE /\ nReadings < readingLimit
          /\ nReadings' = nReadings + 1
          /\ schedRaw' = out
          /\ schedPc' = "publish"
          /\ cycleReadOk' = cycleReadOk \cup {schedTags[schedIdx].id}
          /\ UNCHANGED <<schedIdx, schedTags, cycleEligible, cycleEvents>>
  /\ UNCHANGED <<regVars, lisVars, engineVars, onAlarmCallback, serviceVars, outVars>>

\* engine.py lines 50-66: driver, connect, read, disconnect have returned
SchedReadReturns(out) ==
  /\ \/ schedPc = "reading"
     \/ /\ schedPc = "read"
        /\ GetDriver(schedTags[schedIdx].source_protocol) \notin BlockingDrivers
  /\ out \in ReadOutcomes(schedTags[schedIdx].source_protocol)
  /\ cycleTried' = cycleTried \cup {schedTags[schedIdx].id}
  /\ IF out.kind = "raise"
     THEN /\ SchedTagFailed
          /\ UNCHANGED <<cycleReadOk, nReadings>>
     ELSE IF out.kind = "none"
     THEN /\ schedIdx' = schedIdx + 1
          /\ schedPc' = IF schedIdx < Len(schedTags) THEN "read" ELSE "sleep"
          /\ schedRaw' = NoRaw
          /\ UNCHANGED <<schedTags, cycleEligible, cycleEvents, cycleReadOk, nReadings>>
     ELSE /\ nReadings < readingLimit
          /\ nReadings' = nReadings + 1
          /\ schedRaw' = out
          /\ schedPc' = "publish"
          /\ cycleReadOk' = cycleReadOk \cup {schedTags[schedIdx].id}
          /\ UNCHANGED <<schedIdx, schedTags, cycleEligible, cycleEvents>>
  /\ UNCHANGED <<regVars, lisVars, engineVars, onAlarmCallback, serviceVars, outVars>>

\* the same with a driver whose calls are not followed into the transport
SchedRead(out) == SchedReadReturns(out) /\ UNCHANGED bridgeVars

\* engine.py lines 68-85: the canonical event and its publish; publish()
\* swallows a broker failure (mqtt_client.py lines 53-60)
SchedPublishReturns(delivered) ==
  /\ schedPc = "publish"
  /\ busEvents' = [busEvents EXCEPT !["sched"] =
                     Append(@, [tag_id |-> schedTags[schedIdx].id,
                                tag_name |-> schedTags[schedIdx].name,
                                value |-> schedRaw,
                                quality |-> "GOOD",
                                has_timestamp |-> TRUE,
                                delivered |-> delivered])]
  /\ cycleEvents' = [cycleEvents EXCEPT ![schedTags[schedIdx].id] = @ + 1]
  /\ schedPc' = "persist"
  /\ UNCHANGED <<schedTags, schedIdx, schedRaw, cycleEligible, cycleTried, cycleReadOk>>
  /\ UNCHANGED <<regVars, nReadings, lisVars, engineVars, onAlarmCallback, apiVars, histVars, bridgeVars, metrics>>

SchedPublish(delivered) == SchedPublishReturns(delivered) /\ UNCHANGED sessVars

\* whether evaluate compares the value with a limit (lines 56-67)
Compares(tag) ==
  /\ tag.alarm_definition.id # 0
  /\ tag.alarm_definition.is_active
  /\ DOMAIN tag.alarm_definition.limits # {}

\* a storage failure reaching the handler of the loop body
IterationRaisesOnStorageFailure(stored, raw, tag) ==
  ~stored \/ (raw.kind = "list" /\ Compares(tag))

\* engine.py lines 88-95: what ends the iteration in the handler of lines
\* 94-95 after save_metric. save_metric catches its own exceptions and returns
\* False (storage.py lines 29-31), and the result is not looked at; the only
\* exception left is the TypeError of a list compared with a limit
IterationRaises(stored, raw, tag) ==
  raw.kind = "list" /\ Compares(tag)

\* engine.py lines 88-92: save_metric has completed (storage.py lines 16-30:
\* False on a storage error, and a list value cannot be stored); evaluate then
\* runs to its first suspension point. Comparing a list with a limit raises
\* TypeError, which the handler of lines 94-95 catches
SchedPersist(stored) ==
  /\ schedPc = "persist"
  /\ IF stored /\ schedRaw.kind = "value"
     THEN metrics' = [metrics EXCEPT !["sched"] =
                        SaveMetric(@, schedTags[schedIdx].id, schedRaw.v)]
     ELSE UNCHANGED metrics
  /\ IF IterationRaises(stored, schedRaw, schedTags[schedIdx])
     THEN /\ SchedTagFailed
          /\ UNCHANGED <<cycleTried, cycleReadOk, engineVars>>
     ELSE /\ Evaluate("sched", schedTags[schedIdx],
                      IF schedRaw.kind = "list" THEN 0 ELSE schedRaw.v)
          /\ IF evPc'["sched"] = "idle"
             THEN SchedNextTag
             ELSE /\ schedPc' = "in_evaluate"
                  /\ UNCHANGED <<schedTags, schedIdx, schedRaw, cycleEligible,
                                 cycleEvents, cycleTried, cycleReadOk>>
  /\ UNCHANGED <<regVars, nReadings, lisVars, onAlarmCallback, serviceVars, bridgeVars, busEvents>>

\* a loop that goes on after the sleep of a cycle with reads, and ends at the
\* longer sleep of a failed or empty fetch
SchedSleepEndsAfterBackoff ==
  /\ schedPc = "sleep"
  /\ schedPc' = "fetch"
  /\ schedTags' = <<>>
  /\ schedIdx' = 1
  /\ cycleEligible' = {}
  /\ cycleEvents' = [t \in Tags |-> 0]
  /\ cycleTried' = {}
  /\ cycleReadOk' = {}
  /\ UNCHANGED schedRaw
  /\ UNCHANGED <<regVars, nReadings, lisVars, engineVars, onAlarmCallback, serviceVars, bridgeVars, outVars>>

\* engine.py line 99 (1 s, whatever the tags' scan_rate_ms) and lines 45, 104
SchedSleep ==
  /\ schedPc \in {"sleep", "backoff"}
  /\ schedPc' = "fetch"
  /\ schedTags' = <<>>
  /\ schedIdx' = 1
  /\ cycleEligible' = {}
  /\ cycleEvents' = [t \in Tags |-> 0]
  /\ cycleTried' = {}
  /\ cycleReadOk' = {}
  /\ UNCHANGED schedRaw
  /\ UNCHANGED <<regVars, nReadings, lisVars, engineVars, onAlarmCallback, serviceVars, bridgeVars, outVars>>

\* ------------------------------------------------------ external bus listener
EmptyMap == [tp \in {} |-> <<>>]

\* mqtt_listener.py lines 31-46: the topic map built from the registry
MqttTopics(reg) ==
  {reg[t].topic : t \in {u \in Tags : reg[u].source_protocol = "mqtt"
                                      /\ reg[u].topic # 0}}

BuildTopicMap(reg) ==
  [tp \in MqttTopics(reg) |->
     RowsOf(reg, {t \in Tags : reg[t].source_protocol = "mqtt" /\ reg[t].topic = tp})]

\* payloads of the external bus, by what json.loads (line 130) and float
\* (line 159) make of them: a JSON object (its fields in order), a bare JSON
\* number such as 42 or 23.5, a float literal that is not JSON such as +5, and
\* text that is neither
ObjectPayload(x) ==
  [kind |-> "object", fields |-> <<[key |-> "val", numeric |-> TRUE, v |-> x]>>, v |-> 0]
MixedPayload(x) ==
  [kind |-> "object",
   fields |-> <<[key |-> "val", numeric |-> FALSE, v |-> 0],
                [key |-> "tmp", numeric |-> TRUE, v |-> x]>>,
   v |-> 0]
PairPayload(x, y) ==
  [kind |-> "object",
   fields |-> <<[key |-> "tmp", numeric |-> TRUE, v |-> x],
                [key |-> "val", numeric |-> TRUE, v |-> y]>>,
   v |-> 0]
WordsPayload ==
  [kind |-> "object", fields |-> <<[key |-> "val", numeric |-> FALSE, v |-> 0]>>, v |-> 0]
EmptyObjectPayload == [kind |-> "object", fields |-> <<>>, v |-> 0]
NumberPayload(x) == [kind |-> "number", fields |-> <<>>, v |-> x]
RawPayload(x) == [kind |-> "raw", fields |-> <<>>, v |-> x]
TextPayload == [kind |-> "text", fields |-> <<>>, v |-> 0]

FieldOf(fields, key) ==
  LET I == {i \in 1..Len(fields) : fields[i].key = key}
  IN IF I = {} THEN 0 ELSE CHOOSE i \in I : \A j \in I : i <= j

\* the fallback taking the last numeric field instead of the first
FirstNumericTakesLast(fields) ==
  LET I == {i \in 1..Len(fields) : fields[i].numeric}
  IN IF I = {} THEN 0 ELSE CHOOSE i \in I : \A j \in I : i >= j

\* mqtt_listener.py lines 163-169: the first item float() accepts (0: none)
FirstNumeric(fields) ==
  LET I == {i \in 1..Len(fields) : fields[i].numeric}
  IN IF I = {} THEN 0 ELSE CHOOSE i \in I : \A j \in I : i <= j

\* mqtt_listener.py lines 128-133 and 151-169: the value of a tag from a
\* payload; ok = FALSE where the code raises (the handler of line 193 logs it).
\* A JSON object goes through .get(json_key, 0.0) when the key is set and the
\* object is not empty, else through the first field float() accepts, else
\* stays 0.0; a bare JSON number is neither None nor a dict, so .get or .items
\* raises AttributeError; other text goes through float(payload_str)
ExtractValue(json_key, payload) ==
  IF payload.kind = "object"
  THEN IF json_key # "" /\ Len(payload.fields) > 0
       THEN IF FieldOf(payload.fields, json_key) = 0
            THEN [ok |-> TRUE, value |-> 0]
            ELSE IF payload.fields[FieldOf(payload.fields, json_key)].numeric
                 THEN [ok |-> TRUE,
                       value |-> payload.fields[FieldOf(payload.fields, json_key)].v]
                 ELSE [ok |-> FALSE, value |-> 0]
       ELSE IF FirstNumeric(payload.fields) = 0
            THEN [ok |-> TRUE, value |-> 0]
            ELSE [ok |-> TRUE, value |-> payload.fields[FirstNumeric(payload.fields)].v]
  ELSE IF payload.kind = "raw"
  THEN [ok |-> TRUE, value |-> payload.v]
  ELSE [ok |-> FALSE, value |-> 0]

\* a failed load leaving the listener without a map
LoadTopicMapClearsOnFailure(map, reg, dbOk) ==
  IF dbOk THEN BuildTopicMap(reg) ELSE EmptyMap

\* a reload that adds the topics the registry has now and leaves the entries
\* the map already holds as they are
LoadTopicMapKeepsEntries(map, reg, dbOk) ==
  IF dbOk
  THEN [tp \in DOMAIN map \cup MqttTopics(reg) |->
          IF tp \in DOMAIN map THEN map[tp] ELSE BuildTopicMap(reg)[tp]]
  ELSE map

\* mqtt_listener.py lines 26-51: load_topic_map builds a new map and binds
\* _topic_map to it (line 46); an exception of the session or the query is
\* logged (lines 50-51) and _topic_map stays as it was
LoadTopicMap(map, reg, dbOk) ==
  IF dbOk THEN BuildTopicMap(reg) ELSE map

LoadOutcome(dbOk) == IF dbOk THEN "ok" ELSE "failed"

\* mqtt_listener.py lines 62-66: the initial load, then the refresh task is
\* created (it is kept in no variable)
LisStart(dbOk) ==
  /\ lisPc = "start"
  /\ topicMap' = LoadTopicMap(topicMap, registry, dbOk)
  /\ lastLoad' = LoadOutcome(dbOk)
  /\ refreshTask' = "running"
  /\ lisPc' = "connect"
  /\ UNCHANGED <<lisTags, lisIdx, lisValue, lisPayload, subscribed, lisPending,
                 nLosses, inbox>>
  /\ UNCHANGED <<regVars, nReadings, schedVars, engineVars, onAlarmCallback, serviceVars, bridgeVars, outVars>>

\* mqtt_listener.py lines 101-108: _periodic_topic_refresh, a task of its
\* own, calls load_topic_map every 30 s and nothing else: it does not touch
\* the broker session
LisRefresh(dbOk) ==
  /\ refreshTask = "running"
  /\ topicMap' = LoadTopicMap(topicMap, registry, dbOk)
  /\ lastLoad' = LoadOutcome(dbOk)
  /\ topicMap' # topicMap \/ lastLoad' # lastLoad
  /\ UNCHANGED <<lisPc, lisTags, lisIdx, lisValue, lisPayload, subscribed,
                 lisPending, nLosses, inbox, refreshTask>>
  /\ UNCHANGED <<regVars, nReadings, schedVars, engineVars, onAlarmCallback, serviceVars, bridgeVars, outVars>>

\* mqtt_listener.py lines 68-85: open a session (MqttError when the broker
\* cannot be reached, lines 94-96); with an empty map sleep 10 s, reload and
\* start over; else begin the loop over the keys the map has now
LisConnect(up, dbOk) ==
  /\ lisPc = "connect"
  /\ IF ~up
     THEN /\ nLosses < MaxLosses
          /\ nLosses' = nLosses + 1
          /\ lisPc' = "backoff"
          /\ UNCHANGED <<topicMap, subscribed, lisPending, lastLoad>>
     ELSE IF DOMAIN topicMap = {}
     THEN /\ topicMap' = LoadTopicMap(topicMap, registry, dbOk)
          /\ lastLoad' = LoadOutcome(dbOk)
          /\ UNCHANGED <<lisPc, subscribed, lisPending, nLosses>>
     ELSE /\ lisPending' = SortedSeq(DOMAIN topicMap)
          /\ subscribed' = {}
          /\ lisPc' = "subscribe"
          /\ UNCHANGED <<topicMap, nLosses, lastLoad>>
  /\ UNCHANGED <<lisTags, lisIdx, lisValue, lisPayload, inbox, refreshTask>>
  /\ UNCHANGED <<regVars, nReadings, schedVars, engineVars, onAlarmCallback, serviceVars, bridgeVars, outVars>>

\* mqtt_listener.py lines 85-88: subscribe to the next key; the lookup
\* _topic_map[topic] of line 87 reads the map as it is now and raises KeyError
\* when a reload has dropped the topic (caught at line 97, session closed)
LisSubscribe ==
  /\ lisPc = "subscribe"
  /\ IF Head(lisPending) \in DOMAIN topicMap
     THEN /\ subscribed' = subscribed \cup {Head(lisPending)}
          /\ lisPending' = Tail(lisPending)
          /\ lisPc' = IF Len(lisPending) = 1 THEN "idle" ELSE "subscribe"
     ELSE /\ subscribed' = {}
          /\ lisPending' = <<>>
          /\ lisPc' = "backoff"
  /\ UNCHANGED <<topicMap, lisTags, lisIdx, lisValue, lisPayload, nLosses, inbox, refreshTask, lastLoad>>
  /\ UNCHANGED <<regVars, nReadings, schedVars, engineVars, onAlarmCallback, serviceVars, bridgeVars, outVars>>

\* mqtt_listener.py lines 91-96: the message iterator raises MqttError when
\* the connection is lost; the session and its subscriptions are gone
LisConnectionLost ==
  /\ lisPc = "idle"
  /\ nLosses < MaxLosses
  /\ nLosses' = nLosses + 1
  /\ subscribed' = {}
  /\ lisPc' = "backoff"
  /\ UNCHANGED <<topicMap, lisTags, lisIdx, lisValue, lisPayload, lisPending, inbox, refreshTask, lastLoad>>
  /\ UNCHANGED <<regVars, nReadings, schedVars, engineVars, onAlarmCallback, serviceVars, bridgeVars, outVars>>

\* the listener task ending after the backoff instead of looping
LisBackoffGivesUp ==
  /\ lisPc = "backoff"
  /\ lisPc' = "stopped"
  /\ UNCHANGED <<topicMap, lisTags, lisIdx, lisValue, lisPayload, subscribed,
                 lisPending, nLosses, inbox, refreshTask, lastLoad>>
  /\ UNCHANGED <<regVars, nReadings, schedVars, engineVars, onAlarmCallback, serviceVars, bridgeVars, outVars>>

\* mqtt_listener.py lines 96 and 99: the 5 s sleep, then the next iteration of
\* the while loop
LisBackoff ==
  /\ lisPc = "backoff"
  /\ lisPc' = "connect"
  /\ UNCHANGED <<topicMap, lisTags, lisIdx, lisValue, lisPayload, subscribed,
                 lisPending, nLosses, inbox, refreshTask, lastLoad>>
  /\ UNCHANGED <<regVars, nReadings, schedVars, engineVars, onAlarmCallback, serviceVars, bridgeVars, outVars>>

\* mqtt_listener.py line 120: _topic_map.get(topic); the first variant looks
\* an unmapped topic up in the registry instead
TagsForTopicFromRegistry(map, topic) ==
  IF topic \in DOMAIN map THEN map[topic]
  ELSE RowsOf(registry, {t \in Tags : registry[t].topic = topic})

TagsForTopic(map, topic) ==
  IF topic \in DOMAIN map THEN map[topic] ELSE <<>>

\* mqtt_listener.py lines 110-137: a message of a subscribed topic arrives;
\* `tags` is what the map holds for the topic now (nothing: return)
LisReceive(topic, payload) ==
  /\ lisPc = "idle"
  /\ topic \in subscribed
  /\ Len(inbox) < MaxMessages
  /\ inbox' = Append(inbox, [topic |-> topic, payload |-> payload,
                             tags |-> TagsForTopic(topicMap, topic)])
  /\ IF TagsForTopic(topicMap, topic) # <<>>
     THEN /\ lisTags' = TagsForTopic(topicMap, topic)
          /\ lisIdx' = 1
          /\ lisPayload' = payload
          /\ lisPc' = "extract"
     ELSE UNCHANGED <<lisTags, lisIdx, lisPayload, lisPc>>
  /\ UNCHANGED <<topicMap, subscribed, lisValue, lisPending, nLosses,
                 refreshTask, lastLoad>>
  /\ UNCHANGED <<regVars, nReadings, schedVars, engineVars, onAlarmCallback, serviceVars, bridgeVars, outVars>>

\* a failure on one tag ending the delivery of the message
LisTagFailedAbortsMessage ==
  /\ lisValue' = 0
  /\ lisIdx' = 1
  /\ lisPc' = "idle"
  /\ lisTags' = <<>>
  /\ lisPayload' = NoPayload
  /\ UNCHANGED <<topicMap, subscribed, lisPending, nLosses, inbox, refreshTask, lastLoad>>

\* mqtt_listener.py lines 193-194 inside the loop of lines 136-137: the
\* exception is logged in _process_tag_value and the loop takes the next tag
LisTagFailed == LisNextTag

\* mqtt_listener.py lines 146-169 (and 193-194 when the extraction raises)
LisExtract ==
  /\ lisPc = "extract"
  /\ LET r == ExtractValue(lisTags[lisIdx].json_key, lisPayload) IN
     IF r.ok
     THEN /\ nReadings < readingLimit
          /\ nReadings' = nReadings + 1
          /\ lisValue' = r.value
          /\ lisPc' = "persist"
          /\ UNCHANGED <<topicMap, subscribed, lisTags, lisIdx, lisPayload,
                         lisPending, nLosses, inbox, refreshTask, lastLoad>>
     ELSE /\ LisTagFailed
          /\ UNCHANGED nReadings
  /\ UNCHANGED <<regVars, schedVars, engineVars, onAlarmCallback, serviceVars, bridgeVars, outVars>>

\* mqtt_listener.py line 173 with storage.py lines 16-30
LisPersist(stored) ==
  /\ lisPc = "persist"
  /\ IF stored
     THEN metrics' = [metrics EXCEPT !["lis"] =
                        SaveMetric(@, lisTags[lisIdx].id, lisValue)]
     ELSE UNCHANGED metrics
  /\ lisPc' = "publish"
  /\ UNCHANGED <<topicMap, subscribed, lisTags, lisIdx, lisValue, lisPayload,
                 lisPending, nLosses, inbox, refreshTask, lastLoad>>
  /\ UNCHANGED <<regVars, nReadings, schedVars, engineVars, onAlarmCallback, serviceVars, bridgeVars, busEvents>>

\* mqtt_listener.py lines 176-191: the publish of the canonical event (which
\* has no timestamp field) has completed; evaluate then runs to its first
\* suspension point
LisPublishReturns(delivered) ==
  /\ lisPc = "publish"
  /\ busEvents' = [busEvents EXCEPT !["lis"] =
                     Append(@, [tag_id |-> lisTags[lisIdx].id,
                                tag_name |-> lisTags[lisIdx].name,
                                value |-> [kind |-> "value", v |-> lisValue],
                                quality |-> "GOOD",
                                has_timestamp |-> FALSE,
                                delivered |-> delivered])]
  /\ Evaluate("lis", lisTags[lisIdx], lisValue)
  /\ IF evPc'["lis"] = "idle"
     THEN LisNextTag
     ELSE /\ lisPc' = "in_evaluate"
          /\ UNCHANGED <<topicMap, subscribed, lisTags, lisIdx, lisValue, lisPayload,
                         lisPending, nLosses, inbox, refreshTask, lastLoad>>
  /\ UNCHANGED <<regVars, nReadings, schedVars, onAlarmCallback, apiVars, histVars, bridgeVars, metrics>>

LisPublish(delivered) == LisPublishReturns(delivered) /\ UNCHANGED sessVars

\* ------------------------------------------------- driver factory and drivers
\* protocol identifiers as get_driver receives them: an enum member (whose
\* value is the name) or a string, the name in lower or upper case, plain or
\* in the qualified form ProtocolType.X
ProtocolNames == {"modbus", "opcua", "simulated", "simulator", "mqtt", "bacnet"}
Idents ==
  {i \in [enum : BOOLEAN, qualified : BOOLEAN, upper : BOOLEAN, name : ProtocolNames] :
     i.enum => ~i.qualified}

\* the text get_driver works on: [qualified, upper, name]
PlainText(name) == [qualified |-> FALSE, upper |-> FALSE, name |-> name]
IdentText(ident) ==
  [qualified |-> ident.qualified, upper |-> ident.upper, name |-> ident.name]
Lower(text) == [text EXCEPT !.upper = FALSE]
LastSegment(text) == [text EXCEPT !.qualified = FALSE]

\* the normalisation without the lower-casing
NormalizeProtocolKeepsCase(ident) ==
  IF IdentText(ident).qualified THEN LastSegment(IdentText(ident))
  ELSE IdentText(ident)

\* factory.py lines 23-30: str(protocol_type.value).lower() for an enum
\* member, str(protocol_type).lower() otherwise, then the part after the last
\* dot when the text contains "protocoltype."
NormalizeProtocol(ident) ==
  IF Lower(IdentText(ident)).qualified THEN LastSegment(Lower(IdentText(ident)))
  ELSE Lower(IdentText(ident))

\* factory.py lines 14-41: get_driver for an identifier
GetDriverFor(ident) ==
  IF NormalizeProtocol(ident) = PlainText(NormalizeProtocol(ident).name)
  THEN GetDriver(NormalizeProtocol(ident).name)
  ELSE "ValueError"

\* connection_config of a Modbus tag: host 0 stands for a config with neither
\* "ip" nor "host"; the port is the default 502
Hosts == {1}
Configs == [host : {0} \cup Hosts, unit_id : {1, 2}]
NoKey == <<>>

\* modbus.py lines 34-48: the key f"{ip}:{port}:{unit_id}", "" without a host
ConnectionKey(cfg) ==
  IF cfg.host = 0 THEN NoKey ELSE <<cfg.host, 502, cfg.unit_id>>

NoCall == [op |-> "none", driver |-> 0, arg |-> 0, connect |-> "none", result |-> "none"]

\* modbus.py line 30 and base.py lines 16-18: nothing built, nothing cached
InitBridges ==
  /\ drivers = <<>>
  /\ connections = {}
  /\ clients = <<>>
  /\ nCalls = 0
  /\ lastCall = NoCall
  /\ reachable = Hosts

\* the cached client of a key (0: none)
Cached(cache, key) ==
  IF \E p \in cache : p[1] = key
  THEN (CHOOSE p \in cache : p[1] = key)[2]
  ELSE 0

\* modbus.py line 78: ModbusDriver._connections[key] = client
CachePut(cache, key, c) == {p \in cache : p[1] # key} \cup {<<key, c>>}

\* modbus.py lines 50-90: connect of driver d. `outcome` is what opening a new
\* ModbusClient gives: "open", "refused" (open() returns False after the
\* timeout) or "raise" (caught at line 87). The result is the state after the
\* call and the value returned
ConnectEffect(drvs, cache, cls, d, outcome) ==
  LET key == drvs[d].key
      old == Cached(cache, key)
      new == Len(cls) + 1
  IN  IF key = NoKey
      THEN [drivers |-> drvs, connections |-> cache, clients |-> cls, result |-> FALSE]
      ELSE IF old # 0 /\ cls[old].is_open
      THEN [drivers |-> [drvs EXCEPT ![d].client = old, ![d].connected = TRUE],
            connections |-> cache, clients |-> cls, result |-> TRUE]
      ELSE IF outcome = "raise"
      THEN [drivers |-> [drvs EXCEPT ![d].client = IF old # 0 THEN old ELSE @,
                                     ![d].connected = FALSE],
            connections |-> cache, clients |-> cls, result |-> FALSE]
      ELSE [drivers |-> [drvs EXCEPT ![d].client = new,
                                     ![d].connected = (outcome = "open")],
            connections |-> IF outcome = "open" THEN CachePut(cache, key, new)
                            ELSE cache,
            clients |-> Append(cls, [key |-> key, is_open |-> (outcome = "open")]),
            result |-> (outcome = "open")]

ConnectOutcomes == {"open", "refused", "raise"}

\* engine.py lines 51-54 with factory.py lines 14-41: get_driver is called;
\* a ModbusDriver is built from the config (modbus.py lines 32-48)
GetDriverCall(ident, cfg) ==
  /\ nCalls < MaxCalls
  /\ nCalls' = nCalls + 1
  /\ IF GetDriverFor(ident) = "ModbusDriver"
     THEN /\ Len(drivers) < MaxDrivers
          /\ drivers' = Append(drivers, [key |-> ConnectionKey(cfg),
                                         connected |-> FALSE, client |-> 0])
          /\ lastCall' = [op |-> "get_driver", driver |-> Len(drivers) + 1,
                          arg |-> ident, connect |-> "none", result |-> "ModbusDriver"]
     ELSE /\ UNCHANGED drivers
          /\ lastCall' = [op |-> "get_driver", driver |-> 0,
                          arg |-> ident, connect |-> "none", result |-> GetDriverFor(ident)]
  /\ UNCHANGED <<connections, clients>>
  /\ UNCHANGED reachable
  /\ UNCHANGED <<regVars, nReadings, schedVars, lisVars, engineVars,
                 onAlarmCallback, serviceVars, outVars>>

\* modbus.py lines 50-90
DriverConnect(d, outcome) ==
  /\ nCalls < MaxCalls
  /\ d \in 1..Len(drivers)
  /\ LET r == ConnectEffect(drivers, connections, clients, d, outcome) IN
       /\ Len(r.clients) <= MaxClients
       /\ drivers' = r.drivers
       /\ connections' = r.connections
       /\ clients' = r.clients
       /\ lastCall' = [op |-> "connect", driver |-> d, arg |-> 0,
                       connect |-> IF r.result THEN "true" ELSE "false",
                       result |-> IF r.result THEN "true" ELSE "false"]
  /\ nCalls' = nCalls + 1
  /\ UNCHANGED reachable
  /\ UNCHANGED <<regVars, nReadings, schedVars, lisVars, engineVars,
                 onAlarmCallback, serviceVars, outVars>>

\* modbus.py lines 100-157 (read_tag) and 159-203 (write_tag): connect when
\* the driver is not connected; without an open client return None / False;
\* else the register call, whose failure or exception also gives None / False
DriverTransfer(op, d, outcome, answered) ==
  /\ nCalls < MaxCalls
  /\ d \in 1..Len(drivers)
  /\ LET r == IF drivers[d].connected
              THEN [drivers |-> drivers, connections |-> connections,
                    clients |-> clients, result |-> TRUE]
              ELSE ConnectEffect(drivers, connections, clients, d, outcome)
         c == r.drivers[d].client
     IN
       /\ Len(r.clients) <= MaxClients
       /\ drivers' = r.drivers
       /\ connections' = r.connections
       /\ clients' = r.clients
       /\ lastCall' = [op |-> op, driver |-> d, arg |-> 0,
                       connect |-> IF drivers[d].connected THEN "none"
                                   ELSE IF r.result THEN "true" ELSE "false",
                       result |-> IF c # 0 /\ r.clients[c].is_open /\ answered
                                  THEN "value" ELSE "none"]
  /\ nCalls' = nCalls + 1
  /\ UNCHANGED reachable
  /\ UNCHANGED <<regVars, nReadings, schedVars, lisVars, engineVars,
                 onAlarmCallback, serviceVars, outVars>>

\* a disconnect that closes the transport and drops the cache entry
DriverDisconnectCloses(d) ==
  /\ nCalls < MaxCalls
  /\ d \in 1..Len(drivers)
  /\ drivers' = [drivers EXCEPT ![d].connected = FALSE]
  /\ clients' = IF drivers[d].client # 0
                THEN [clients EXCEPT ![drivers[d].client].is_open = FALSE]
                ELSE clients
  /\ connections' = {p \in connections : p[2] # drivers[d].client}
  /\ lastCall' = [op |-> "disconnect", driver |-> d, arg |-> 0,
                  connect |-> "none", result |-> "none"]
  /\ nCalls' = nCalls + 1
  /\ UNCHANGED reachable
  /\ UNCHANGED <<regVars, nReadings, schedVars, lisVars, engineVars,
                 onAlarmCallback, serviceVars, outVars>>

\* modbus.py lines 92-98: disconnect only clears the driver's flag
DriverDisconnect(d) ==
  /\ nCalls < MaxCalls
  /\ d \in 1..Len(drivers)
  /\ drivers' = [drivers EXCEPT ![d].connected = FALSE]
  /\ lastCall' = [op |-> "disconnect", driver |-> d, arg |-> 0,
                  connect |-> "none", result |-> "none"]
  /\ nCalls' = nCalls + 1
  /\ UNCHANGED <<connections, clients>>
  /\ UNCHANGED reachable
  /\ UNCHANGED <<regVars, nReadings, schedVars, lisVars, engineVars,
                 onAlarmCallback, serviceVars, outVars>>

\* the device or the network closes the socket of client c
TransportDrop(c) ==
  /\ c \in 1..Len(clients)
  /\ clients[c].is_open
  /\ clients' = [clients EXCEPT ![c].is_open = FALSE]
  /\ UNCHANGED <<drivers, connections, nCalls, lastCall, reachable>>
  /\ UNCHANGED <<regVars, nReadings, schedVars, lisVars, engineVars,
                 onAlarmCallback, serviceVars, outVars>>

\* the clients that are still referenced once the loop body drops its driver:
\* trailing clients that no cache entry holds are gone
RECURSIVE Collect(_, _)
Collect(cls, cache) ==
  IF cls = <<>> \/ \E p \in cache : p[2] = Len(cls) THEN cls
  ELSE Collect(SubSeq(cls, 1, Len(cls) - 1), cache)

\* engine.py lines 50-66 for a Modbus tag, followed into the driver: the
\* driver is built (modbus.py lines 32-48), connect (50-90), read_tag
\* (100-157, which connects once more when the driver is not connected),
\* disconnect (92-98). o1 and o2 are what opening a new client gives at the
\* two connects, `answered` whether the register request is answered, `raw`
\* what an answered request returns and `closes` whether the library closes
\* the socket of a request that failed
SchedPoll(o1, o2, answered, raw, closes) ==
  /\ schedPc = "reading"
  /\ GetDriver(schedTags[schedIdx].source_protocol) = "ModbusDriver"
  /\ LET cfg == schedTags[schedIdx].connection_config
         up == cfg.host \in reachable
         d0 == [key |-> ConnectionKey(cfg), connected |-> FALSE, client |-> 0]
         r1 == ConnectEffect(<<d0>>, connections, clients, 1, o1)
         r2 == IF r1.drivers[1].connected THEN r1
               ELSE ConnectEffect(r1.drivers, r1.connections, r1.clients, 1, o2)
         c == r2.drivers[1].client
         sent == c # 0 /\ r2.clients[c].is_open
         after == IF sent /\ ~answered /\ closes
                  THEN [r2.clients EXCEPT ![c].is_open = FALSE]
                  ELSE r2.clients
     IN
       /\ up => o1 = "open" /\ o2 = "open"
       /\ ~up => o1 # "open" /\ o2 # "open" /\ ~answered
       /\ raw.kind \in {"value", "list"}
       /\ Len(Collect(after, r2.connections)) <= MaxClients
       /\ connections' = r2.connections
       /\ clients' = Collect(after, r2.connections)
       /\ lastCall' = [op |-> "poll", driver |-> schedTags[schedIdx].id, arg |-> 0,
                       connect |-> IF r1.result THEN "true" ELSE "false",
                       result |-> IF sent /\ answered THEN "value" ELSE "none"]
       /\ SchedReadReturns(IF sent /\ answered THEN raw
                           ELSE [kind |-> "none", v |-> 0])
  /\ UNCHANGED <<drivers, nCalls, reachable>>

\* the device of host h goes away or comes back
DeviceChange(h) ==
  /\ reachable' = IF h \in reachable THEN reachable \ {h} ELSE reachable \cup {h}
  /\ UNCHANGED <<drivers, connections, clients, nCalls, lastCall>>
  /\ UNCHANGED <<regVars, nReadings, schedVars, lisVars, engineVars,
                 onAlarmCallback, serviceVars, outVars>>

\* ------------------------------------------------- tag administration (CRUD)
\* api/tags.py lines 182-184: update_tag sets the fields that were sent
UpdateProtocol(t, p) ==
  /\ nUpdates < MaxUpdates
  /\ p # registry[t].source_protocol
  /\ registry' = [registry EXCEPT ![t].source_protocol = p]
  /\ nUpdates' = nUpdates + 1
  /\ UNCHANGED <<nextDefId, nReadings, readingLimit, schedVars, lisVars, engineVars,
                 onAlarmCallback, serviceVars, bridgeVars, outVars>>

UpdateEnabled(t) ==
  /\ nUpdates < MaxUpdates
  /\ registry' = [registry EXCEPT ![t].is_enabled = ~@]
  /\ nUpdates' = nUpdates + 1
  /\ UNCHANGED <<nextDefId, nReadings, readingLimit, schedVars, lisVars, engineVars,
                 onAlarmCallback, serviceVars, bridgeVars, outVars>>

\* api/tags.py lines 181-184 with source_protocol and connection_config sent:
\* the tag becomes a bus-topic tag of topic tp
UpdateConnection(t, tp) ==
  /\ nUpdates < MaxUpdates
  /\ registry[t].source_protocol # "mqtt" \/ registry[t].topic # tp
  /\ registry' = [registry EXCEPT ![t].source_protocol = "mqtt", ![t].topic = tp]
  /\ nUpdates' = nUpdates + 1
  /\ UNCHANGED <<nextDefId, nReadings, readingLimit, schedVars, lisVars, engineVars,
                 onAlarmCallback, serviceVars, bridgeVars, outVars>>

\* api/tags.py lines 187-198: update or create the tag's AlarmDefinition
UpdateAlarm(t, active) ==
  /\ nUpdates < MaxAlarmUpdates
  /\ IF registry[t].alarm_definition.id # 0
     THEN /\ registry' = [registry EXCEPT ![t].alarm_definition.is_active = active]
          /\ registry' # registry
          /\ UNCHANGED nextDefId
     ELSE /\ registry' = [registry EXCEPT ![t].alarm_definition =
                            [id |-> nextDefId, is_active |-> active,
                             limits |-> FullLimits, deadband |-> 0]]
          /\ nextDefId' = nextDefId + 1
  /\ nUpdates' = nUpdates + 1
  /\ UNCHANGED <<nReadings, readingLimit, schedVars, lisVars, engineVars, onAlarmCallback, serviceVars, bridgeVars, outVars>>

\* api/tags.py lines 245-264: delete_tag_alarm
DeleteTagAlarm(t) ==
  /\ nUpdates < MaxAlarmUpdates
  /\ registry[t].alarm_definition.id # 0
  /\ registry' = [registry EXCEPT ![t].alarm_definition = NoDef]
  /\ nUpdates' = nUpdates + 1
  /\ UNCHANGED <<nextDefId, nReadings, readingLimit, schedVars, lisVars, engineVars,
                 onAlarmCallback, serviceVars, bridgeVars, outVars>>

\* operator acknowledgement of an open event (external collaborator)
Acknowledge(e) ==
  /\ e \in 1..Len(alarmEvents)
  /\ alarmEvents[e].status = "ACTIVE_UNACK"
  /\ alarmEvents' = [alarmEvents EXCEPT ![e].status = "ACTIVE_ACK"]
  /\ UNCHANGED <<activeAlarms, alarmNotifs, callbackCalls, evPc, evFrame, evReturn>>
  /\ UNCHANGED <<regVars, nReadings, schedVars, lisVars, onAlarmCallback, serviceVars, bridgeVars, outVars>>

\* ------------------------------------------ tag API: create_tag, update_tag
\* The tags table as create_tag and update_tag see it. A row is id, name,
\* source_protocol and connection_config; a connection_config is the set of
\* the keys it holds (values of the right type)
TagNames == {1, 2}
ApiSlots == {1, 2}
ApiProtocols == {"modbus", "mqtt", "simulated"}
ApiConfigs == {{}, {"host", "register"}, {"topic"}}

\* schemas/tag.py lines 14-43: ModbusConfig requires host and register,
\* OpcuaConfig url and node_id, MqttExternalConfig topic; every field of
\* SimulatedConfig has a default, and keys a schema does not name are ignored
ConfigValid(protocol, cfg) ==
  IF protocol = "modbus" THEN {"host", "register"} \subseteq cfg
  ELSE IF protocol = "opcua" THEN {"url", "node_id"} \subseteq cfg
  ELSE IF protocol = "mqtt" THEN "topic" \in cfg
  ELSE TRUE

\* schemas/tag.py lines 80-98: TagCreate validates the config for the protocol
\* (both have defaults, so both are always there)
CreateValidates(req) == ConfigValid(req.source_protocol, req.connection_config)

\* schemas/tag.py lines 128-143: TagUpdate validates only when the request
\* has a protocol and a config that is not empty (line 131); the stored row is
\* not looked at
UpdateValidates(req) ==
  (req.source_protocol # "unset" /\ req.has_config /\ req.connection_config # {})
    => ConfigValid(req.source_protocol, req.connection_config)

CreateRequests ==
  [kind : {"create"}, id : {0}, name : TagNames, source_protocol : ApiProtocols,
   has_config : {TRUE}, connection_config : ApiConfigs]

\* name 0, protocol "unset" and has_config FALSE: the field was not sent
UpdateRequests ==
  {r \in [kind : {"update"}, id : 1..MaxRows, name : {0} \cup TagNames,
          source_protocol : {"unset"} \cup ApiProtocols,
          has_config : BOOLEAN, connection_config : ApiConfigs] :
     ~r.has_config => r.connection_config = {}}

NoRequest ==
  [kind |-> "none", id |-> 0, name |-> 0, source_protocol |-> "unset",
   has_config |-> FALSE, connection_config |-> {}]
IdleSlot == [pc |-> "idle", req |-> NoRequest, loaded_name |-> 0]
NoResponse == [slot |-> 0, kind |-> "none", status |-> 0]

InitApi ==
  /\ tagRows = <<>>
  /\ apiReqs = [r \in ApiSlots |-> IdleSlot]
  /\ nRequests = 0
  /\ apiLast = NoResponse

\* select(Tag).where(Tag.name == name): whether a row has the name
NameTaken(rows, name) == \E i \in 1..Len(rows) : rows[i].name = name

\* select(Tag).where(Tag.id == id): the index of the row (0: none)
RowOf(rows, id) ==
  IF \E i \in 1..Len(rows) : rows[i].id = id
  THEN CHOOSE i \in 1..Len(rows) : rows[i].id = id
  ELSE 0

ApiFrame ==
  UNCHANGED <<regVars, nReadings, schedVars, lisVars, engineVars,
              onAlarmCallback, bridgeVars, sessVars, histVars, outVars>>

\* api/tags.py lines 22-25 and 150-154: FastAPI parses the body, running the
\* validators of TagCreate or TagUpdate (422 when they raise), and calls the
\* handler, which runs to its first await
ApiSubmit(slot, req) ==
  /\ nRequests < MaxRequests
  /\ apiReqs[slot].pc = "idle"
  /\ nRequests' = nRequests + 1
  /\ IF (req.kind = "create" /\ ~CreateValidates(req))
        \/ (req.kind = "update" /\ ~UpdateValidates(req))
     THEN /\ apiLast' = [slot |-> slot, kind |-> req.kind, status |-> 422]
          /\ UNCHANGED apiReqs
     ELSE /\ apiReqs' = [apiReqs EXCEPT ![slot] =
                           [pc |-> IF req.kind = "create" THEN "check" ELSE "load",
                            req |-> req, loaded_name |-> 0]]
          /\ UNCHANGED apiLast
  /\ UNCHANGED tagRows
  /\ ApiFrame

\* api/tags.py lines 31-38: the name query of create_tag has returned
ApiCreateCheck(slot) ==
  /\ apiReqs[slot].pc = "check"
  /\ apiReqs[slot].req.kind = "create"
  /\ IF NameTaken(tagRows, apiReqs[slot].req.name)
     THEN /\ apiLast' = [slot |-> slot, kind |-> "create", status |-> 400]
          /\ apiReqs' = [apiReqs EXCEPT ![slot] = IdleSlot]
     ELSE /\ apiReqs' = [apiReqs EXCEPT ![slot].pc = "write"]
          /\ UNCHANGED apiLast
  /\ UNCHANGED <<tagRows, nRequests>>
  /\ ApiFrame

\* api/tags.py lines 41-56: the row is added, flushed and committed; the
\* name column has an index and no unique constraint (db/models.py line 78)
ApiCreateInsert(slot) ==
  /\ apiReqs[slot].pc = "write"
  /\ apiReqs[slot].req.kind = "create"
  /\ Len(tagRows) < MaxRows
  /\ tagRows' = Append(tagRows,
                       [id |-> Len(tagRows) + 1,
                        name |-> apiReqs[slot].req.name,
                        source_protocol |-> apiReqs[slot].req.source_protocol,
                        connection_config |-> apiReqs[slot].req.connection_config])
  /\ apiLast' = [slot |-> slot, kind |-> "create", status |-> 201]
  /\ apiReqs' = [apiReqs EXCEPT ![slot] = IdleSlot]
  /\ UNCHANGED nRequests
  /\ ApiFrame

\* api/tags.py lines 160-168: the tag query of update_tag has returned
ApiUpdateLoad(slot) ==
  /\ apiReqs[slot].pc = "load"
  /\ LET i == RowOf(tagRows, apiReqs[slot].req.id) IN
       IF i = 0
       THEN /\ apiLast' = [slot |-> slot, kind |-> "update", status |-> 404]
            /\ apiReqs' = [apiReqs EXCEPT ![slot] = IdleSlot]
       ELSE /\ apiReqs' =
                 [apiReqs EXCEPT ![slot].loaded_name = tagRows[i].name,
                                 ![slot].pc =
                                    IF apiReqs[slot].req.name # 0
                                       /\ apiReqs[slot].req.name # tagRows[i].name
                                    THEN "check" ELSE "write"]
            /\ UNCHANGED apiLast
  /\ UNCHANGED <<tagRows, nRequests>>
  /\ ApiFrame

\* api/tags.py lines 171-179: the name query of update_tag has returned
ApiUpdateCheck(slot) ==
  /\ apiReqs[slot].pc = "check"
  /\ apiReqs[slot].req.kind = "update"
  /\ IF NameTaken(tagRows, apiReqs[slot].req.name)
     THEN /\ apiLast' = [slot |-> slot, kind |-> "update", status |-> 400]
          /\ apiReqs' = [apiReqs EXCEPT ![slot] = IdleSlot]
     ELSE /\ apiReqs' = [apiReqs EXCEPT ![slot].pc = "write"]
          /\ UNCHANGED apiLast
  /\ UNCHANGED <<tagRows, nRequests>>
  /\ ApiFrame

\* api/tags.py lines 181-184: the fields that were sent, set on the row
ApplyUpdate(row, req) ==
  [row EXCEPT !.name = IF req.name # 0 THEN req.name ELSE @,
              !.source_protocol =
                 IF req.source_protocol # "unset" THEN req.source_protocol ELSE @,
              !.connection_config =
                 IF req.has_config THEN req.connection_config ELSE @]

\* api/tags.py lines 181-201: the sent fields are set and committed
ApiUpdateCommit(slot) ==
  /\ apiReqs[slot].pc = "write"
  /\ apiReqs[slot].req.kind = "update"
  /\ LET i == RowOf(tagRows, apiReqs[slot].req.id) IN
       tagRows' = [tagRows EXCEPT ![i] = ApplyUpdate(@, apiReqs[slot].req)]
  /\ apiLast' = [slot |-> slot, kind |-> "update", status |-> 200]
  /\ apiReqs' = [apiReqs EXCEPT ![slot] = IdleSlot]
  /\ UNCHANGED nRequests
  /\ ApiFrame

\* ------------------------------------------------------------ the system
\* internal topics: schemas/tag.py lines 100-107 give a tag created without
\* mqtt_topic the topic scada/tags/<normalized name>; a request may set
\* another one, and a row written past the schema has none
GeneratedTopic(name) == [prefix |-> "scada/tags", leaf |-> name]
CustomTopic(name) == [prefix |-> "plant", leaf |-> name]
NoTopic == [prefix |-> "", leaf |-> 0]
NoTopics == [tp \in {} |-> 0]

InitRow(t) ==
  [id |-> t,
   name |-> t,
   is_enabled |-> TRUE,
   source_protocol |-> IF t = 1 THEN "mqtt" ELSE "simulated",
   scan_rate_ms |-> 1000 * t,
   topic |-> IF t = 1 THEN 1 ELSE 0,
   json_key |-> IF t = 1 THEN "val" ELSE "",
   connection_config |-> [host |-> 1, unit_id |-> 1],
   mqtt_topic |-> GeneratedTopic(t),
   alarm_definition |-> [id |-> t, is_active |-> TRUE, limits |-> FullLimits,
                         deadband |-> 0]]

\* engine.py lines 22-25 and 135-136: the engine as constructed
InitEngine ==
  /\ activeAlarms = [t \in Tags |-> 0]
  /\ alarmEvents = <<>>
  /\ alarmNotifs = <<>>
  /\ callbackCalls = <<>>
  /\ evPc = [k \in Tasks |-> "idle"]
  /\ evFrame = [k \in Tasks |-> NoFrame]
  /\ evReturn = [k \in Tasks |-> 0]

\* main.py lines 33-34: both tasks created, nothing read yet
InitTasks ==
  /\ nextDefId = Cardinality(Tags) + 1
  /\ nUpdates = 0
  /\ nReadings = 0
  /\ schedPc = "fetch"
  /\ schedTags = <<>>
  /\ schedIdx = 1
  /\ schedRaw = NoRaw
  /\ cycleEligible = {}
  /\ cycleEvents = [t \in Tags |-> 0]
  /\ cycleTried = {}
  /\ cycleReadOk = {}
  /\ topicMap = EmptyMap
  /\ lisPc = "start"
  /\ lisTags = <<>>
  /\ lisIdx = 1
  /\ lisValue = 0
  /\ lisPayload = NoPayload
  /\ subscribed = {}
  /\ lisPending = <<>>
  /\ nLosses = 0
  /\ inbox = <<>>
  /\ refreshTask = "none"
  /\ lastLoad = "none"
  /\ InitBridges
  /\ InitApi
  /\ sessions = {}
  /\ histPc = "off"
  /\ histMap = NoTopics
  /\ histSeen = [k \in Tasks |-> 0]
  /\ histMetrics = <<>>
  /\ InitEngine
  /\ busEvents = [k \in Tasks |-> <<>>]
  /\ metrics = [k \in Tasks |-> <<>>]

Init ==
  /\ registry = [t \in Tags |-> InitRow(t)]
  /\ readingLimit = MaxReadings
  /\ onAlarmCallback = FALSE
  /\ InitTasks

\* Both ingestion tasks, operator acknowledgement and a change of a tag's
\* protocol, with the database, the broker and the storage answering every call
Next ==
  \/ SchedFetch(TRUE)
  \/ \E out \in SimulatorOutcomes : SchedRead(out)
  \/ SchedPublish(TRUE)
  \/ SchedPersist(TRUE)
  \/ SchedSleep
  \/ LisStart(TRUE)
  \/ LisRefresh(TRUE)
  \/ LisConnect(TRUE, TRUE)
  \/ LisSubscribe
  \/ LisBackoff
  \/ \E tp \in subscribed, x \in LisValues : LisReceive(tp, ObjectPayload(x))
  \/ LisExtract
  \/ LisPersist(TRUE)
  \/ LisPublish(TRUE)
  \/ \E k \in Tasks : EvalPublishActive(k)
  \/ \E k \in Tasks : EvalPublishNormal(k)
  \/ \E e \in 1..Len(alarmEvents) : Acknowledge(e)
  \/ \E t \in Tags, p \in {"simulated", "mqtt"} : UpdateProtocol(t, p)

Spec == Init /\ [][Next]_vars

\* ------------------------------------------- the broker sessions of publish
\* mqtt_client.py lines 41-60: task k is inside MQTTClient.publish, called for
\* a canonical event (engine.py line 85, mqtt_listener.py line 188) or by
\* publish_alarm (lines 62-84) from evaluate running in k
InPublish(k) ==
  \/ k = "sched" /\ schedPc = "publish"
  \/ k = "lis" /\ lisPc = "publish"
  \/ evPc[k] \in {"create_publish", "resolve_publish"}

\* mqtt_client.py lines 29-39 and 51: `async with self.get_client()` has
\* connected a new aiomqtt.Client, whose identifier is settings.mqtt_client_id
\* for every caller; nothing in publish waits for another call to finish
PublishConnect(k) ==
  /\ InPublish(k)
  /\ k \notin sessions
  /\ sessions' = sessions \cup {k}
  /\ UNCHANGED <<regVars, nReadings, schedVars, lisVars, engineVars, onAlarmCallback,
                 apiVars, histVars, bridgeVars, outVars>>

\* mqtt_client.py lines 51-60: the message is sent and the `async with` block
\* is left (True), or connect or publish raised (False); either way the
\* client of the call is gone when publish returns
SchedPublishSession(delivered) ==
  /\ delivered => "sched" \in sessions
  /\ SchedPublishReturns(delivered)
  /\ sessions' = sessions \ {"sched"}

LisPublishSession(delivered) ==
  /\ delivered => "lis" \in sessions
  /\ LisPublishReturns(delivered)
  /\ sessions' = sessions \ {"lis"}

\* mqtt_client.py lines 62-84: publish_alarm returns what publish returns,
\* and _create_alarm and _resolve_alarm do not look at it
EvalPublishActiveSession(task) ==
  /\ EvalPublishActiveReturns(task)
  /\ sessions' = sessions \ {task}

EvalPublishNormalSession(task) ==
  /\ EvalPublishNormalReturns(task)
  /\ sessions' = sessions \ {task}

NextSessions ==
  \/ SchedFetch(TRUE)
  \/ \E out \in SimulatorOutcomes : SchedRead(out)
  \/ \E k \in Tasks : PublishConnect(k)
  \/ \E d \in BOOLEAN : SchedPublishSession(d)
  \/ SchedPersist(TRUE)
  \/ SchedSleep
  \/ LisStart(TRUE)
  \/ LisConnect(TRUE, TRUE)
  \/ LisSubscribe
  \/ \E tp \in subscribed, x \in LisValues : LisReceive(tp, ObjectPayload(x))
  \/ LisExtract
  \/ LisPersist(TRUE)
  \/ \E d \in BOOLEAN : LisPublishSession(d)
  \/ \E k \in Tasks : EvalPublishActiveSession(k)
  \/ \E k \in Tasks : EvalPublishNormalSession(k)

SpecSessions == Init /\ [][NextSessions]_vars

\* ----------------------------------------------------------- HistoryService
\* engine.py line 79, mqtt_listener.py lines 176-178: the topic a canonical
\* event is published on
PublishTopic(tag) ==
  IF tag.mqtt_topic # NoTopic THEN tag.mqtt_topic ELSE GeneratedTopic(tag.name)

\* history.py line 33: the subscription filter scada/tags/#
MatchesFilter(topic) == topic.prefix = "scada/tags"

\* history.py lines 51-62: _load_topic_map; the dict comprehension of line
\* 59 keeps the last tag of a topic; an exception leaves the map as it was
HistLoadTopicMap(map, reg, dbOk) ==
  IF dbOk
  THEN [tp \in {reg[t].mqtt_topic : t \in {u \in Tags : reg[u].is_enabled}} |->
          CHOOSE t \in Tags :
            /\ reg[t].is_enabled /\ reg[t].mqtt_topic = tp
            /\ \A u \in Tags : reg[u].is_enabled /\ reg[u].mqtt_topic = tp => u <= t]
  ELSE map

HistFrame ==
  UNCHANGED <<regVars, nReadings, schedVars, lisVars, engineVars, onAlarmCallback,
              apiVars, sessVars, bridgeVars, outVars>>

\* history.py lines 37-42: start loads the map and creates the task
HistStart(dbOk) ==
  /\ histPc = "off"
  /\ histMap' = HistLoadTopicMap(histMap, registry, dbOk)
  /\ histPc' = "connect"
  /\ UNCHANGED <<histSeen, histMetrics>>
  /\ HistFrame

\* history.py lines 66-83: an empty map is loaded again, then the session
\* (identifier <client id>-history) is opened and the filter subscribed;
\* events published before that are not delivered to it
HistSubscribe(dbOk) ==
  /\ histPc = "connect"
  /\ histMap' = IF histMap = NoTopics
                THEN HistLoadTopicMap(histMap, registry, dbOk)
                ELSE histMap
  /\ histSeen' = [k \in Tasks |-> Len(busEvents[k])]
  /\ histPc' = "subscribed"
  /\ UNCHANGED histMetrics
  /\ HistFrame

\* history.py lines 86-87 and 98-133: the next event of task k; one that
\* reached the broker on a topic of the filter is looked up in the map and
\* its value is handed to save_metric
HistProcess(k) ==
  /\ histPc = "subscribed"
  /\ histSeen[k] < Len(busEvents[k])
  /\ histSeen' = [histSeen EXCEPT ![k] = @ + 1]
  /\ LET e == busEvents[k][histSeen[k] + 1]
         topic == PublishTopic(registry[e.tag_id])
     IN  IF /\ e.delivered
            /\ MatchesFilter(topic)
            /\ topic \in DOMAIN histMap
            /\ e.value.kind = "value"
         THEN histMetrics' = SaveMetric(histMetrics, histMap[topic], e.value.v)
         ELSE UNCHANGED histMetrics
  /\ UNCHANGED <<histPc, histMap>>
  /\ HistFrame

\* the registry of the history runs: tag 1 has the generated topic, tag 2 the
\* generated one, one outside scada/tags, or none
InitHistory ==
  /\ \E tp \in {GeneratedTopic(2), CustomTopic(2), NoTopic} :
       registry = [t \in Tags |->
                     IF t = 2 THEN [InitRow(t) EXCEPT !.mqtt_topic = tp] ELSE InitRow(t)]
  /\ readingLimit = MaxReadings
  /\ onAlarmCallback = FALSE
  /\ InitTasks

NextHistory ==
  \/ SchedFetch(TRUE)
  \/ \E out \in SimulatorOutcomes : SchedRead(out)
  \/ \E d \in BOOLEAN : SchedPublish(d)
  \/ SchedPersist(TRUE)
  \/ SchedSleep
  \/ LisStart(TRUE)
  \/ LisConnect(TRUE, TRUE)
  \/ LisSubscribe
  \/ \E tp \in subscribed, x \in LisValues : LisReceive(tp, ObjectPayload(x))
  \/ LisExtract
  \/ LisPersist(TRUE)
  \/ \E d \in BOOLEAN : LisPublish(d)
  \/ \E k \in Tasks : EvalPublishActive(k)
  \/ \E k \in Tasks : EvalPublishNormal(k)
  \/ \E ok \in BOOLEAN : HistStart(ok)
  \/ \E ok \in BOOLEAN : HistSubscribe(ok)
  \/ \E k \in Tasks : HistProcess(k)

SpecHistory == InitHistory /\ [][NextHistory]_vars

\* The polling scheduler alone, with devices, database, broker and storage
\* that may fail, and tags switched on and off or moved to another protocol
FaultValues == {50, 95}
FaultOutcomes ==
  {[kind |-> "value", v |-> x] : x \in FaultValues}
    \cup {[kind |-> "list", v |-> 0], [kind |-> "none", v |-> 0],
          [kind |-> "raise", v |-> 0]}

\* any mix of protocols and of enabled and disabled tags
InitFaults ==
  /\ registry \in {reg \in [Tags -> {[InitRow(t) EXCEPT !.source_protocol = p,
                                                        !.is_enabled = b] :
                                       t \in Tags, p \in Protocols, b \in BOOLEAN}] :
                     \A t \in Tags : reg[t].id = t}
  /\ readingLimit = MaxReadings
  /\ onAlarmCallback = FALSE
  /\ InitTasks

NextFaults ==
  \/ \E dbOk \in BOOLEAN : SchedFetch(dbOk)
  \/ SchedBeginRead
  \/ \E out \in FaultOutcomes : SchedRead(out)
  \/ \E delivered \in BOOLEAN : SchedPublish(delivered)
  \/ \E stored \in BOOLEAN : SchedPersist(stored)
  \/ SchedSleep
  \/ EvalPublishActive("sched")
  \/ EvalPublishNormal("sched")
  \/ \E t \in Tags : UpdateEnabled(t)

SpecFaults == InitFaults /\ [][NextFaults]_vars

\* One tag fed by the scheduler, sample after sample, with an operator who may
\* acknowledge; the engine with or without a callback; limits HH/H/L/LL or
\* HH/LL only
InitSeq ==
  /\ \E lim \in {FullLimits, SeqLimits} :
       registry = [t \in Tags |->
                     [InitRow(t) EXCEPT !.alarm_definition.limits = lim]]
  /\ readingLimit = MaxSeq
  /\ onAlarmCallback \in BOOLEAN
  /\ InitTasks

NextSeq ==
  \/ SchedFetch(TRUE)
  \/ \E out \in SimulatorOutcomes : SchedRead(out)
  \/ SchedPublish(TRUE)
  \/ SchedPersist(TRUE)
  \/ SchedSleep
  \/ EvalPublishActive("sched")
  \/ EvalCallback("sched")
  \/ EvalPublishNormal("sched")
  \/ \E e \in 1..Len(alarmEvents) : Acknowledge(e)

SpecSeq == InitSeq /\ [][NextSeq]_vars

\* The scheduler while the tags' alarm definitions are edited, deleted and
\* created again
NextAdmin ==
  \/ SchedFetch(TRUE)
  \/ \E out \in SimulatorOutcomes : SchedRead(out)
  \/ SchedPublish(TRUE)
  \/ SchedPersist(TRUE)
  \/ SchedSleep
  \/ EvalPublishActive("sched")
  \/ EvalPublishNormal("sched")
  \/ \E t \in Tags, active \in BOOLEAN : UpdateAlarm(t, active)
  \/ \E t \in Tags : DeleteTagAlarm(t)

SpecAdmin == Init /\ [][NextAdmin]_vars

\* evaluate applied to one value after another, for every subset of the four
\* limits and limits in any order
LimitValues == {20, 60}
LimitMaps == UNION {[S -> LimitValues] : S \in SUBSET LimitKeys}

InitClassify ==
  /\ \E lim \in LimitMaps :
       registry = [t \in Tags |->
                     [InitRow(t) EXCEPT !.alarm_definition.limits = lim]]
  /\ readingLimit = MaxReadings
  /\ onAlarmCallback = FALSE
  /\ InitTasks

NextClassify ==
  \/ SchedFetch(TRUE)
  \/ \E out \in SimulatorOutcomes : SchedRead(out)
  \/ SchedPublish(TRUE)
  \/ SchedPersist(TRUE)
  \/ SchedSleep
  \/ EvalPublishActive("sched")
  \/ EvalPublishNormal("sched")

SpecClassify == InitClassify /\ [][NextClassify]_vars

\* The bus listener alone: two bus-topic tags on one topic, enabled or not,
\* with and without a field key, payloads of every kind, a connection that
\* may drop, and tag 2 moved to another topic while the listener runs
Topics == {1, 2}
Payloads ==
  {ObjectPayload(x) : x \in LisValues}
    \cup {MixedPayload(95), PairPayload(50, 95), NumberPayload(95), RawPayload(95),
          WordsPayload, EmptyObjectPayload, TextPayload}

\* two simulated tags whose definitions differ only in deadband (and id),
\* fed the same value in every cycle
Deadbands == <<0, 25>>

InitDeadband ==
  /\ \E lim \in {FullLimits, SeqLimits} :
       registry = [t \in Tags |->
                     [InitRow(t) EXCEPT !.source_protocol = "simulated",
                                        !.alarm_definition.limits = lim,
                                        !.alarm_definition.deadband = Deadbands[t]]]
  /\ readingLimit = 2 * MaxCycles
  /\ onAlarmCallback = FALSE
  /\ InitTasks

\* the second tag of a cycle reads the value the first tag read
SameFeed(out) ==
  schedIdx = 2 => out.v = metrics["sched"][Len(metrics["sched"])].value

NextDeadband ==
  \/ SchedFetch(TRUE)
  \/ \E out \in SimulatorOutcomes : SameFeed(out) /\ SchedRead(out)
  \/ SchedPublish(TRUE)
  \/ SchedPersist(TRUE)
  \/ SchedSleep
  \/ EvalPublishActive("sched")
  \/ EvalPublishNormal("sched")

SpecDeadband == InitDeadband /\ [][NextDeadband]_vars

\* The scheduler for ever: tags of the drivers that can come back without a
\* value, in any mix with bus-topic tags, enabled or not. Every driver, broker,
\* storage and engine call returns (weak fairness of the step that follows
\* it), and the registry store does not fail for ever (strong fairness of the
\* fetch that succeeds)
InitForever ==
  /\ registry \in {reg \in [Tags -> {[InitRow(t) EXCEPT !.source_protocol = p,
                                                        !.is_enabled = b] :
                                       t \in Tags, p \in {"modbus", "opcua", "mqtt"},
                                       b \in BOOLEAN}] :
                     \A t \in Tags : reg[t].id = t}
  /\ readingLimit = MaxReadings
  /\ onAlarmCallback = FALSE
  /\ InitTasks

SpecForever ==
  /\ InitForever
  /\ [][NextFaults]_vars
  /\ SF_vars(SchedFetch(TRUE))
  /\ WF_vars(SchedBeginRead)
  /\ WF_vars(\E out \in FaultOutcomes : SchedRead(out))
  /\ WF_vars(\E delivered \in BOOLEAN : SchedPublish(delivered))
  /\ WF_vars(\E stored \in BOOLEAN : SchedPersist(stored))
  /\ WF_vars(SchedSleep)
  /\ WF_vars(EvalPublishActive("sched"))
  /\ WF_vars(EvalPublishNormal("sched"))

\* The scheduler polling two Modbus tags, the first with or without a host in
\* its configuration, while the device comes and goes
InitPolled ==
  /\ \E h \in {0} \cup Hosts :
       registry = [t \in Tags |->
                     [InitRow(t) EXCEPT !.source_protocol = "modbus",
                                        !.connection_config.host =
                                           IF t = 1 THEN h ELSE 1]]
  /\ readingLimit = MaxReadings
  /\ onAlarmCallback = FALSE
  /\ InitTasks

NextPolled ==
  \/ SchedFetch(TRUE)
  \/ SchedBeginRead
  \/ \E o1, o2 \in ConnectOutcomes, answered, closes \in BOOLEAN,
        raw \in ModbusOutcomes : SchedPoll(o1, o2, answered, raw, closes)
  \/ SchedPublish(TRUE)
  \/ SchedPersist(TRUE)
  \/ SchedSleep
  \/ EvalPublishActive("sched")
  \/ EvalPublishNormal("sched")
  \/ \E h \in Hosts : DeviceChange(h)
  \/ \E c \in 1..Len(clients) : TransportDrop(c)

SpecPolled == InitPolled /\ [][NextPolled]_vars

\* The tag API on its own: create_tag and update_tag requests, up to two of
\* them in progress at a time
InitApiAlone ==
  /\ registry = [t \in Tags |-> InitRow(t)]
  /\ readingLimit = MaxReadings
  /\ onAlarmCallback = FALSE
  /\ InitTasks

NextApi ==
  \/ \E slot \in ApiSlots, req \in CreateRequests \cup UpdateRequests :
       ApiSubmit(slot, req)
  \/ \E slot \in ApiSlots : ApiCreateCheck(slot)
  \/ \E slot \in ApiSlots : ApiCreateInsert(slot)
  \/ \E slot \in ApiSlots : ApiUpdateLoad(slot)
  \/ \E slot \in ApiSlots : ApiUpdateCheck(slot)
  \/ \E slot \in ApiSlots : ApiUpdateCommit(slot)

SpecApi == InitApiAlone /\ [][NextApi]_vars

\* the factory and the Modbus drivers on their own: any sequence of calls
InitBridgesAlone ==
  /\ registry = [t \in Tags |-> InitRow(t)]
  /\ readingLimit = MaxReadings
  /\ onAlarmCallback = FALSE
  /\ InitTasks

NextBridges ==
  \/ \E ident \in Idents, cfg \in Configs : GetDriverCall(ident, cfg)
  \/ \E d \in 1..Len(drivers), o \in ConnectOutcomes : DriverConnect(d, o)
  \/ \E d \in 1..Len(drivers), o \in ConnectOutcomes, a \in BOOLEAN,
        op \in {"read", "write"} : DriverTransfer(op, d, o, a)
  \/ \E d \in 1..Len(drivers) : DriverDisconnect(d)
  \/ \E c \in 1..Len(clients) : TransportDrop(c)

SpecBridges == InitBridgesAlone /\ [][NextBridges]_vars

\* main.py lines 42-52: shutdown cancels data_task and listener_task and
\* awaits both. CancelledError is raised at the await each task is suspended
\* in; it is no Exception, so no handler of the loops catches it and both
\* tasks end (the listener's broker session is closed by its async with).
\* The task of _periodic_topic_refresh is in neither list
Shutdown ==
  /\ schedPc # "cancelled"
  /\ schedPc' = "cancelled"
  /\ lisPc' = "cancelled"
  /\ subscribed' = {}
  /\ evPc' = [k \in Tasks |-> "idle"]
  /\ evFrame' = [k \in Tasks |-> NoFrame]
  /\ UNCHANGED <<schedTags, schedIdx, schedRaw, cycleEligible, cycleEvents,
                 cycleTried, cycleReadOk>>
  /\ UNCHANGED <<topicMap, lisTags, lisIdx, lisValue, lisPayload, lisPending,
                 nLosses, inbox, refreshTask, lastLoad>>
  /\ UNCHANGED <<activeAlarms, alarmEvents, alarmNotifs, callbackCalls, evReturn>>
  /\ UNCHANGED <<regVars, nReadings, onAlarmCallback, serviceVars, bridgeVars, outVars>>

\* the application from startup to shutdown
NextShutdown ==
  \/ Next
  \/ Shutdown

SpecShutdown == Init /\ [][NextShutdown]_vars

InitLis ==
  /\ \E e2 \in BOOLEAN, k2 \in {"", "tmp"} :
       registry = [t \in Tags |->
                     [InitRow(t) EXCEPT !.source_protocol = "mqtt",
                                        !.topic = 1,
                                        !.is_enabled = IF t = 1 THEN TRUE ELSE e2,
                                        !.json_key = IF t = 1 THEN "val" ELSE k2]]
  /\ readingLimit = MaxReadings
  /\ onAlarmCallback = FALSE
  /\ InitTasks

NextLis ==
  \/ LisStart(TRUE)
  \/ LisRefresh(TRUE)
  \/ \E up \in BOOLEAN : LisConnect(up, TRUE)
  \/ LisSubscribe
  \/ LisConnectionLost
  \/ LisBackoff
  \/ \E tp \in subscribed, p \in Payloads : LisReceive(tp, p)
  \/ LisExtract
  \/ LisPersist(TRUE)
  \/ LisPublish(TRUE)
  \/ EvalPublishActive("lis")
  \/ EvalPublishNormal("lis")
  \/ \E tp \in Topics : UpdateConnection(2, tp)

SpecLis == InitLis /\ [][NextLis]_vars

\* The bus listener with a registry store that may fail at any load and a
\* broker session that may drop, while tag 2 is moved to another topic
NextLisStore ==
  \/ \E dbOk \in BOOLEAN : LisStart(dbOk)
  \/ \E dbOk \in BOOLEAN : LisRefresh(dbOk)
  \/ \E dbOk \in BOOLEAN : LisConnect(TRUE, dbOk)
  \/ LisSubscribe
  \/ LisConnectionLost
  \/ LisBackoff
  \/ \E tp \in subscribed, x \in LisValues : LisReceive(tp, ObjectPayload(x))
  \/ LisExtract
  \/ LisPersist(TRUE)
  \/ LisPublish(TRUE)
  \/ EvalPublishActive("lis")
  \/ EvalPublishNormal("lis")
  \/ \E tp \in Topics : UpdateConnection(2, tp)

SpecLisStore == InitLis /\ [][NextLisStore]_vars

\* the listener's own steps are taken: asyncio resumes the task when the 5 s
\* sleep ends (lines 96, 99), when the broker accepts the session (line 70)
\* and when a subscribe call returns (line 86)
SpecLisFair ==
  /\ SpecLis
  /\ WF_vars(LisBackoff)
  /\ WF_vars(LisConnect(TRUE, TRUE))
  /\ WF_vars(LisSubscribe)

\* ------------------------------------------------------------- properties
OpenStatus == {"ACTIVE_UNACK", "ACTIVE_ACK"}

\* the open AlarmEvents of a definition
OpenEventsOf(d) ==
  {e \in 1..Len(alarmEvents) : /\ alarmEvents[e].definition_id = d
                               /\ alarmEvents[e].status \in OpenStatus}

\* the step in which the scheduler calls evaluate(tag, value)
SchedEvaluates == schedPc = "persist" /\ schedPc' # "persist" /\ schedRaw.kind = "value"

\* C1: in every reachable state, whatever the interleaving of the scheduler's
\* and the listener's evaluate calls and of the operator's acknowledgements,
\* every AlarmDefinition has at most one AlarmEvent whose status is
\* ACTIVE_UNACK or ACTIVE_ACK
C1_AtMostOneOpenPerDefinition ==
  \A d \in 1..nextDefId : Cardinality(OpenEventsOf(d)) <= 1

\* C1 witness: the scheduler is suspended in publish_alarm for the event it
\* opened on reading 1, and meanwhile the listener has evaluated a matching
\* value of the same tag (reading 2) and got None
C1_Witness ==
  /\ evPc["sched"] = "create_publish"
  /\ Len(alarmEvents) = 1
  /\ alarmEvents[1].start_time = 1
  /\ nReadings = 2
  /\ lisPc = "idle"
  /\ Len(busEvents["lis"]) = 1
  /\ busEvents["lis"][1].tag_id = evFrame["sched"].tag
  /\ busEvents["lis"][1].value.v = 95
  /\ evReturn["lis"] = 0
  /\ Cardinality(OpenEventsOf(alarmEvents[1].definition_id)) = 1

\* whether `value` is on the alarm side of the configured limit k
Matches(limits, value, k) ==
  /\ k \in DOMAIN limits
  /\ IF k \in {"HH", "H"} THEN value >= limits[k] ELSE value <= limits[k]

TestOrder == <<"HH", "LL", "H", "L">>

\* the first limit, in the order HH, LL, H, L, that the value matches
FirstMatch(limits, value) ==
  IF \E i \in 1..4 : Matches(limits, value, TestOrder[i])
  THEN TestOrder[CHOOSE i \in 1..4 :
                   /\ Matches(limits, value, TestOrder[i])
                   /\ \A j \in 1..(i - 1) : ~Matches(limits, value, TestOrder[j])]
  ELSE "NORMAL"

\* C2: for every value and every subset of configured limits, evaluate treats
\* the value as matching the first of HH (value >= HH), LL (value <= LL),
\* H (value >= H), L (value <= L) that is configured and matches, with
\* severity critical for HH and LL and warning for H and L; the value is
\* normal (no event is opened) only when no configured limit matches
C2_ClassificationOrder ==
  [][SchedEvaluates /\ schedTags[schedIdx].alarm_definition.is_active =>
       LET tag == schedTags[schedIdx]
           first == FirstMatch(tag.alarm_definition.limits, schedRaw.v)
       IN  IF first = "NORMAL"
           THEN /\ evPc'["sched"] # "create_publish"
                /\ Len(alarmEvents') = Len(alarmEvents)
           ELSE activeAlarms[tag.id] = 0 =>
                  /\ evPc'["sched"] = "create_publish"
                  /\ evFrame'["sched"].limit = first
                  /\ evFrame'["sched"].severity =
                       (IF first \in {"HH", "LL"} THEN "critical" ELSE "warning")
                  /\ Len(alarmEvents') = Len(alarmEvents) + 1]_vars

\* C2 witness: a value that is at or above H and at or below LL, with HH
\* configured but not reached, has been classified LL and critical
C2_Witness ==
  /\ evPc["sched"] = "create_publish"
  /\ evFrame["sched"].limit = "LL"
  /\ evFrame["sched"].severity = "critical"
  /\ LET limits == registry[evFrame["sched"].tag].alarm_definition.limits
         value == alarmEvents[evFrame["sched"].alarm].trigger_value
     IN  /\ DOMAIN limits = LimitKeys
         /\ value < limits["HH"]
         /\ value >= limits["H"]
         /\ value <= limits["L"]

\* the tag and value of the scheduler's evaluate call, and the call's case
EvTag == schedTags[schedIdx]
EvDef == schedTags[schedIdx].alarm_definition
EvMatch == FirstMatch(EvDef.limits, schedRaw.v)
EvChecked == SchedEvaluates /\ EvDef.id # 0 /\ EvDef.is_active

\* C3: an evaluate call that matches a limit while no AlarmEvent is open for
\* the tag's definition creates exactly one AlarmEvent (ACTIVE_UNACK,
\* triggerValue the evaluated value), publishes exactly one notification with
\* status ACTIVE and the matched severity, invokes the registered callback (if
\* any) exactly once with the event, and returns the event
C3_MatchOpensOneEvent ==
  [][/\ (EvChecked /\ EvMatch # "NORMAL" /\ OpenEventsOf(EvDef.id) = {}) =>
          /\ alarmEvents' = Append(alarmEvents,
                                   [definition_id |-> EvDef.id,
                                    trigger_value |-> schedRaw.v,
                                    status |-> "ACTIVE_UNACK",
                                    start_time |-> nReadings,
                                    end_time |-> 0])
          /\ evPc'["sched"] = "create_publish"
          /\ evFrame'["sched"].alarm = Len(alarmEvents) + 1
          /\ evFrame'["sched"].severity =
               (IF EvMatch \in {"HH", "LL"} THEN "critical" ELSE "warning")
     /\ (evPc["sched"] = "create_publish" /\ evPc'["sched"] # "create_publish") =>
          /\ Len(alarmNotifs') = Len(alarmNotifs) + 1
          /\ alarmNotifs'[Len(alarmNotifs')].status = "ACTIVE"
          /\ alarmNotifs'[Len(alarmNotifs')].severity = evFrame["sched"].severity
          /\ evPc'["sched"] = (IF onAlarmCallback THEN "create_callback" ELSE "idle")
     /\ (evPc["sched"] = "create_callback" /\ evPc'["sched"] # "create_callback") =>
          /\ callbackCalls' = Append(callbackCalls, evFrame["sched"].alarm)
          /\ evPc'["sched"] = "idle"
     /\ (evPc["sched"] \in {"create_publish", "create_callback"}
           /\ evPc'["sched"] = "idle") =>
          evReturn'["sched"] = evFrame["sched"].alarm
     /\ evPc["sched"] # "create_publish" =>
          \A n \in (Len(alarmNotifs) + 1)..Len(alarmNotifs') :
            alarmNotifs'[n].status # "ACTIVE"
     /\ evPc["sched"] # "create_callback" => callbackCalls' = callbackCalls]_vars

\* C4: an evaluate call that matches a limit while an AlarmEvent is open for
\* the definition, whichever limit opened it, creates no event, publishes
\* nothing, invokes no callback, leaves the open event's triggerValue,
\* startTime and status as they are, and returns None
C4_MatchWhileOpenIsSilent ==
  [][(EvChecked /\ EvMatch # "NORMAL" /\ OpenEventsOf(EvDef.id) # {}) =>
       /\ alarmEvents' = alarmEvents
       /\ alarmNotifs' = alarmNotifs
       /\ callbackCalls' = callbackCalls
       /\ activeAlarms' = activeAlarms
       /\ evPc'["sched"] = "idle"
       /\ evReturn'["sched"] = 0]_vars

\* C4 witness: an event opened by 80 (H) has since seen 95 (HH) and then 5
\* (LL) with no normal sample in between, and is still the only event
C4_Witness ==
  /\ schedPc \in {"read", "sleep"}
  /\ Len(metrics["sched"]) = 3
  /\ metrics["sched"][1].value = 80
  /\ metrics["sched"][2].value = 95
  /\ metrics["sched"][3].value = 5
  /\ Len(alarmEvents) = 1
  /\ alarmEvents[1].trigger_value = 80
  /\ alarmEvents[1].start_time = 1
  /\ alarmEvents[1].status = "ACTIVE_UNACK"
  /\ Len(alarmNotifs) = 1
  /\ evReturn["sched"] = 0
  /\ registry[alarmEvents[1].definition_id].alarm_definition.limits = FullLimits

\* C5: an evaluate call that finds the value normal while an AlarmEvent is
\* open for the definition resolves it (status RESOLVED, endTime set, no
\* longer open) and publishes exactly one notification with status NORMAL and
\* severity INFO, which differs from the severity of the notification that
\* opened the event; a normal value with no event open for the definition
\* publishes nothing and changes no state
C5_NormalResolvesOpenEvent ==
  [][/\ (EvChecked /\ EvMatch = "NORMAL") =>
          IF OpenEventsOf(EvDef.id) # {}
          THEN /\ \A e \in OpenEventsOf(EvDef.id) :
                    /\ alarmEvents'[e].status = "RESOLVED"
                    /\ alarmEvents'[e].end_time = nReadings
                    /\ alarmEvents'[e].end_time # 0
               /\ OpenEventsOf(EvDef.id)' = {}
               /\ alarmNotifs' = alarmNotifs
               /\ evPc'["sched"] = "resolve_publish"
          ELSE /\ alarmEvents' = alarmEvents
               /\ alarmNotifs' = alarmNotifs
               /\ activeAlarms' = activeAlarms
               /\ callbackCalls' = callbackCalls
               /\ evPc'["sched"] = "idle"
     /\ (evPc["sched"] = "resolve_publish" /\ evPc'["sched"] # "resolve_publish") =>
          /\ Len(alarmNotifs') = Len(alarmNotifs) + 1
          /\ alarmNotifs'[Len(alarmNotifs')].status = "NORMAL"
          /\ alarmNotifs'[Len(alarmNotifs')].severity = "INFO"
          /\ \A n \in 1..Len(alarmNotifs) :
               alarmNotifs[n].status = "ACTIVE" =>
                 alarmNotifs[n].severity # alarmNotifs'[Len(alarmNotifs')].severity
     /\ evPc["sched"] # "resolve_publish" =>
          \A n \in (Len(alarmNotifs) + 1)..Len(alarmNotifs') :
            alarmNotifs'[n].status # "NORMAL"]_vars

\* the samples the scheduler has handed to evaluate so far, in order (each is
\* persisted in the step that evaluates it), and the one tag they belong to
Samples == metrics["sched"]
FedTag == CHOOSE t \in Tags : registry[t].source_protocol = "simulated"
IsMatch(i) ==
  FirstMatch(registry[FedTag].alarm_definition.limits, Samples[i].value) # "NORMAL"

\* the samples at which an event has to open: a matching sample that is the
\* first one or follows a normal sample
Openings == {i \in 1..Len(Samples) : IsMatch(i) /\ (i = 1 \/ ~IsMatch(i - 1))}
NthOpening(k) ==
  CHOOSE i \in Openings : Cardinality({j \in Openings : j <= i}) = k
LaterNormals(i) == {j \in (i + 1)..Len(Samples) : ~IsMatch(j)}

\* C6: for any sequence of values fed to one tag with an active definition,
\* the AlarmEvents are, in order, exactly the samples that match while no event
\* is open (start time and trigger value of that sample), each one RESOLVED at
\* the first later normal sample and open until then; with HH=90 and LL=10 the
\* sequence 50, 95, 50, 5, 50 gives two distinct critical events, opened at
\* samples 2 and 4, both RESOLVED after the last sample
C6_OpenAtCrossingResolveAtNormal ==
  /\ Len(alarmEvents) = Cardinality(Openings)
  /\ \A k \in 1..Len(alarmEvents) :
       LET i == NthOpening(k) IN
       /\ alarmEvents[k].start_time = i
       /\ alarmEvents[k].trigger_value = Samples[i].value
       /\ alarmEvents[k].definition_id = registry[FedTag].alarm_definition.id
       /\ IF LaterNormals(i) = {}
          THEN alarmEvents[k].status \in OpenStatus /\ alarmEvents[k].end_time = 0
          ELSE /\ alarmEvents[k].status = "RESOLVED"
               /\ alarmEvents[k].end_time \in LaterNormals(i)
               /\ \A j \in LaterNormals(i) : alarmEvents[k].end_time <= j
  /\ (/\ registry[FedTag].alarm_definition.limits = SeqLimits
      /\ [i \in 1..Len(Samples) |-> Samples[i].value] = <<50, 95, 50, 5, 50>>) =>
       /\ Len(alarmEvents) = 2
       /\ alarmEvents[1].start_time = 2 /\ alarmEvents[1].trigger_value = 95
       /\ alarmEvents[2].start_time = 4 /\ alarmEvents[2].trigger_value = 5
       /\ alarmEvents[1].status = "RESOLVED" /\ alarmEvents[2].status = "RESOLVED"
       /\ \A n \in 1..Len(alarmNotifs) :
            alarmNotifs[n].status = "ACTIVE" => alarmNotifs[n].severity = "critical"

\* C6 witness: HH=90, LL=10 and the sequence 50, 95, 50, 5, 50 fed completely,
\* with all four notifications out
C6_Witness ==
  /\ registry[FedTag].alarm_definition.limits = SeqLimits
  /\ [i \in 1..Len(Samples) |-> Samples[i].value] = <<50, 95, 50, 5, 50>>
  /\ evPc["sched"] = "idle"
  /\ Len(alarmEvents) = 2
  /\ alarmEvents[1].status = "RESOLVED"
  /\ alarmEvents[2].status = "RESOLVED"
  /\ [n \in 1..Len(alarmNotifs) |-> alarmNotifs[n].limit] = <<"HH", "NORMAL", "LL", "NORMAL">>

\* C7: RESOLVED is terminal: no step changes a RESOLVED AlarmEvent, and a
\* limit crossing on a definition whose earlier events are RESOLVED appends a
\* new AlarmEvent and leaves the resolved ones as they are
C7_ResolvedIsTerminal ==
  [][/\ \A e \in 1..Len(alarmEvents) :
          alarmEvents[e].status = "RESOLVED" =>
            /\ e <= Len(alarmEvents')
            /\ alarmEvents'[e] = alarmEvents[e]
     /\ (/\ EvChecked /\ EvMatch # "NORMAL"
         /\ OpenEventsOf(EvDef.id) = {}
         /\ \E e \in 1..Len(alarmEvents) : alarmEvents[e].definition_id = EvDef.id) =>
          /\ Len(alarmEvents') = Len(alarmEvents) + 1
          /\ alarmEvents'[Len(alarmEvents')].status = "ACTIVE_UNACK"
          /\ activeAlarms'[EvTag.id] = Len(alarmEvents')]_vars

\* C7 witness: the definition's first event is RESOLVED and a later crossing
\* has opened a second event
C7_Witness ==
  /\ Len(alarmEvents) = 2
  /\ alarmEvents[1].status = "RESOLVED"
  /\ alarmEvents[2].status \in OpenStatus
  /\ alarmEvents[1].definition_id = alarmEvents[2].definition_id
  /\ alarmEvents[1].end_time < alarmEvents[2].start_time

\* C8: an acknowledged AlarmEvent never goes back to ACTIVE_UNACK; a matching
\* sample leaves it ACTIVE_ACK and creates no event; a normal sample moves it
\* to RESOLVED
C8_AcknowledgementIsKept ==
  [][/\ \A e \in 1..Len(alarmEvents) :
          alarmEvents[e].status = "ACTIVE_ACK" =>
            alarmEvents'[e].status \in {"ACTIVE_ACK", "RESOLVED"}
     /\ (EvChecked /\ \E e \in OpenEventsOf(EvDef.id) :
                        alarmEvents[e].status = "ACTIVE_ACK") =>
          IF EvMatch # "NORMAL"
          THEN alarmEvents' = alarmEvents
          ELSE \A e \in OpenEventsOf(EvDef.id) : alarmEvents'[e].status = "RESOLVED"]_vars

\* C8 witness: an event opened at sample 1 was acknowledged, a matching second
\* sample was evaluated and the event is still ACTIVE_ACK
C8_Witness ==
  /\ Len(alarmEvents) = 1
  /\ alarmEvents[1].status = "ACTIVE_ACK"
  /\ alarmEvents[1].start_time = 1
  /\ Len(Samples) = 2
  /\ IsMatch(2)
  /\ schedPc \in {"read", "sleep"}

\* C9: a failure while one tag of a polling cycle is processed (an exception
\* of the driver, a failed connect or read, a failed publish or persist, an
\* exception of the alarm evaluation) never aborts the cycle: when the cycle
\* reaches its sleep every tag of its snapshot has been processed, the error
\* back-off is entered only by a cycle that has no snapshot, and the scheduler
\* is always at a position of its loop
C9_TagFailureDoesNotAbortCycle ==
  /\ schedPc = "sleep" =>
       \A i \in 1..Len(schedTags) : schedTags[i].id \in cycleTried
  /\ schedPc = "backoff" => schedTags = <<>>
  /\ schedPc \in {"read", "reading", "publish", "persist", "in_evaluate"} =>
       /\ schedIdx \in 1..Len(schedTags)
       /\ \A i \in 1..(schedIdx - 1) : schedTags[i].id \in cycleTried
  /\ schedPc \in {"fetch", "read", "reading", "publish", "persist", "in_evaluate",
                  "sleep", "backoff"}

\* C9 witness: the first tag of a two-tag snapshot delivered a register list,
\* whose alarm evaluation raised, its publish had failed as well, and the
\* second tag's event was still published before the cycle went to sleep
C9_Witness ==
  /\ schedPc = "sleep"
  /\ Len(schedTags) = 2
  /\ Len(busEvents["sched"]) = 2
  /\ busEvents["sched"][1].tag_id = schedTags[1].id
  /\ busEvents["sched"][1].value.kind = "list"
  /\ ~busEvents["sched"][1].delivered
  /\ Compares(schedTags[1])
  /\ busEvents["sched"][2].tag_id = schedTags[2].id
  /\ cycleTried = {schedTags[1].id, schedTags[2].id}

\* C10: when a cycle reaches its sleep it has produced (handed to the bus
\* publish) exactly one canonical event for every tag that was enabled and
\* pull-based when the cycle fetched the registry and whose read gave a value,
\* which a simulated tag's read always does, whatever the tag's scan_rate_ms;
\* and at no time of a cycle an event for a tag that was disabled or a bus-topic tag
C10_OneEventPerEnabledPullTag ==
  /\ schedPc = "sleep" =>
       /\ \A t \in Tags :
            cycleEvents[t] = (IF t \in cycleEligible /\ t \in cycleReadOk THEN 1 ELSE 0)
       /\ \A i \in 1..Len(schedTags) :
            schedTags[i].source_protocol = "simulated" => cycleEvents[schedTags[i].id] = 1
  /\ \A t \in Tags : cycleEvents[t] <= 1
  /\ \A t \in Tags \ cycleEligible : cycleEvents[t] = 0

\* C10 witness: a cycle over two enabled pull-based tags with different scan
\* rates, one of them simulated, has produced one event for each
C10_Witness ==
  /\ schedPc = "sleep"
  /\ Len(schedTags) = 2
  /\ schedTags[1].scan_rate_ms # schedTags[2].scan_rate_ms
  /\ \E i \in 1..2 : schedTags[i].source_protocol = "simulated"
  /\ \A i \in 1..2 : cycleEvents[schedTags[i].id] = 1

\* C11: no ingestion path publishes, persists or evaluates a reading of a tag
\* whose enabled flag was false in the row the path loaded (the scheduler's
\* query result, the listener's topic map)
C11_OnlyEnabledTagsAreIngested ==
  /\ schedPc \in {"publish", "persist", "in_evaluate"} =>
       schedTags[schedIdx].is_enabled
  /\ lisPc \in {"persist", "publish", "in_evaluate"} =>
       lisTags[lisIdx].is_enabled

\* C12: a message received on a topic that the topic map does not hold
\* appends no Sample and no canonical event, evaluates no alarm and leaves the
\* listener waiting for the next message
C12_UnmappedTopicIsDropped ==
  [][(Len(inbox') = Len(inbox) + 1
        /\ inbox'[Len(inbox')].topic \notin DOMAIN topicMap) =>
       /\ UNCHANGED <<metrics, busEvents, engineVars, nReadings>>
       /\ lisPc' = "idle"]_vars

\* C12 witness: a subscribed topic has left the map; a first message on it
\* was dropped and the listener went on to receive a second one
C12_Witness ==
  /\ Len(inbox) = 2
  /\ inbox[1].tags = <<>>
  /\ inbox[1].topic \in subscribed
  /\ busEvents["lis"] = <<>>
  /\ metrics["lis"] = <<>>
  /\ lisPc = "idle"

\* what a message delivers: one (tag, value) pair for each tag its topic was
\* mapped to from which a value can be extracted, in the order of the map
RECURSIVE TagDeliveries(_, _)
TagDeliveries(tags, payload) ==
  IF tags = <<>> THEN <<>>
  ELSE (IF ExtractValue(Head(tags).json_key, payload).ok
        THEN <<[tag_id |-> Head(tags).id,
                value |-> ExtractValue(Head(tags).json_key, payload).value]>>
        ELSE <<>>) \o TagDeliveries(Tail(tags), payload)

RECURSIVE Deliveries(_)
Deliveries(msgs) ==
  IF msgs = <<>> THEN <<>>
  ELSE TagDeliveries(Head(msgs).tags, Head(msgs).payload) \o Deliveries(Tail(msgs))

LisEventsAsPairs ==
  [i \in 1..Len(busEvents["lis"]) |->
     [tag_id |-> busEvents["lis"][i].tag_id, value |-> busEvents["lis"][i].value.v]]

\* C13: once the listener has finished the messages it received, every tag a
\* message's topic was mapped to has its Sample and its canonical event,
\* whether or not the extraction failed for another tag of the same topic
C13_EveryTagOfTheTopicIsServed ==
  lisPc \in {"idle", "backoff", "connect", "subscribe"} =>
    /\ LisEventsAsPairs = Deliveries(inbox)
    /\ metrics["lis"] = Deliveries(inbox)

\* C13 witness: a message on a topic of two tags whose value cannot be
\* extracted with the first tag's key, and the second tag has its Sample and
\* its event
C13_Witness ==
  /\ lisPc = "idle"
  /\ Len(inbox) = 1
  /\ Len(inbox[1].tags) = 2
  /\ ~ExtractValue(inbox[1].tags[1].json_key, inbox[1].payload).ok
  /\ LisEventsAsPairs = <<[tag_id |-> inbox[1].tags[2].id, value |-> 95]>>
  /\ metrics["lis"] = <<[tag_id |-> inbox[1].tags[2].id, value |-> 95]>>

\* the listener holds a live connection: it is waiting for a message or
\* processing one
LisConnected == lisPc \in {"idle", "extract", "persist", "publish", "in_evaluate"}

\* C14: while the listener is connected, every topic its topic map holds after
\* a reload is a topic it is subscribed to, so that a topic added while it
\* runs is served after the next reload without a restart or a reconnection
C14_ReloadedTopicsAreSubscribed ==
  LisConnected => DOMAIN topicMap \subseteq subscribed

\* the listener has finished every message it received
LisDone == lisPc = "idle"

\* C15: a message whose payload is a bare numeric literal gives every tag its
\* topic is mapped to, with or without a field key, a canonical event and a
\* Sample carrying that number
C15_BareNumberIsIngested ==
  LisDone =>
    \A i \in 1..Len(inbox) :
      inbox[i].payload.kind = "number" =>
        \A j \in 1..Len(inbox[i].tags) :
          /\ \E e \in 1..Len(busEvents["lis"]) :
               /\ busEvents["lis"][e].tag_id = inbox[i].tags[j].id
               /\ busEvents["lis"][e].value.v = inbox[i].payload.v
          /\ \E m \in 1..Len(metrics["lis"]) :
               /\ metrics["lis"][m].tag_id = inbox[i].tags[j].id
               /\ metrics["lis"][m].value = inbox[i].payload.v

\* the payloads from which no numeric value can be extracted for a tag:
\* non-numeric text, an object lacking the configured key, an empty object,
\* an object with no numeric field when no key is configured
NoNumericValue(json_key, payload) ==
  \/ payload.kind = "text"
  \/ /\ payload.kind = "object"
     /\ \/ payload.fields = <<>>
        \/ json_key # "" /\ FieldOf(payload.fields, json_key) = 0
        \/ json_key = "" /\ FirstNumeric(payload.fields) = 0

\* C16: a message from which no numeric value can be extracted for a tag is
\* dropped for that tag: the listener never reaches the persist, publish or
\* evaluate position for it
C16_UnextractableIsDropped ==
  lisPc \in {"persist", "publish", "in_evaluate"} =>
    ~NoNumericValue(lisTags[lisIdx].json_key, lisPayload)

Range(seq) == {seq[i] : i \in 1..Len(seq)}

TaskPc(k) == IF k = "sched" THEN schedPc ELSE lisPc

\* C18: on both ingestion paths a reading is published, then persisted, then
\* evaluated: a path never holds more Samples than canonical events, and an
\* alarm evaluation is in progress only for a reading that is past its
\* persist step
C18_PublishThenPersistThenEvaluate ==
  \A k \in Tasks :
    /\ Len(metrics[k]) <= Len(busEvents[k])
    /\ evPc[k] # "idle" => TaskPc(k) = "in_evaluate"

CountOf(seq, t) == Cardinality({i \in 1..Len(seq) : seq[i].tag_id = t})

\* readings taken whose canonical event / whose Sample is still to come
Unpublished ==
  (IF schedPc = "publish" THEN 1 ELSE 0)
    + (IF lisPc \in {"persist", "publish"} THEN 1 ELSE 0)

Unpersisted ==
  (IF schedPc \in {"publish", "persist"} THEN 1 ELSE 0)
    + (IF lisPc = "persist" THEN 1 ELSE 0)

\* C19: every successful reading gives one canonical event and one Sample,
\* none is merged with an earlier one: the events and the Samples, with the
\* readings still in progress, number as many as the readings taken, and a
\* path that is between readings holds as many Samples as events of each tag
C19_NoDeduplication ==
  /\ Len(busEvents["sched"]) + Len(busEvents["lis"]) + Unpublished = nReadings
  /\ Len(metrics["sched"]) + Len(metrics["lis"]) + Unpersisted = nReadings
  /\ \A k \in Tasks, t \in Tags :
       TaskPc(k) \notin {"publish", "persist"} =>
         CountOf(metrics[k], t) = CountOf(busEvents[k], t)

\* C19 witness: two consecutive readings of one tag with the same value, two
\* Samples and two canonical events
C19_Witness ==
  /\ nReadings = 2
  /\ Len(metrics["sched"]) = 2
  /\ metrics["sched"][1] = metrics["sched"][2]
  /\ Len(busEvents["sched"]) = 2
  /\ busEvents["sched"][1].tag_id = busEvents["sched"][2].tag_id
  /\ busEvents["sched"][1].value = busEvents["sched"][2].value

\* the scheduler starts the read of the tag at position j of its snapshot
StartsReadOf(j) ==
  /\ j \in 1..Len(schedTags)
  /\ schedPc = "read"
  /\ schedIdx = j
  /\ \/ SchedBeginRead
     \/ \E out \in FaultOutcomes : SchedRead(out)

\* C20: a read that is waiting for its driver (and may end in the driver's
\* timeout) neither delays nor prevents the read of the next tag of the
\* cycle: while it is in progress the next tag's read can start, and a cycle
\* that reaches its sleep has read every tag of its snapshot
C20_PendingReadDoesNotDelayNextTag ==
  /\ (schedPc = "reading" /\ schedIdx < Len(schedTags)) =>
       ENABLED StartsReadOf(schedIdx + 1)
  /\ schedPc = "sleep" =>
       \A i \in 1..Len(schedTags) : schedTags[i].id \in cycleTried

\* C21: handing a Sample to the storage does not block the ingestion path:
\* while the scheduler's persistence write of one tag is still in progress the
\* read of the next tag of the cycle can start
C21_PersistDoesNotBlockNextRead ==
  (schedPc = "persist" /\ schedIdx < Len(schedTags)) =>
    ENABLED StartsReadOf(schedIdx + 1)

\* the application has shut down: lifespan has cancelled and awaited its tasks
ShutdownDone == schedPc = "cancelled"

\* C22: once shutdown has completed no ingestion task runs any more: no step
\* loads the registry (into the scheduler's snapshot or the listener's topic
\* map), reads a tag, publishes an event or persists a Sample
C22_NothingRunsAfterShutdown ==
  [][ShutdownDone =>
       UNCHANGED <<topicMap, lastLoad, schedVars, lisPc, subscribed,
                   nReadings, busEvents, metrics>>]_vars

\* C23: get_driver returns the Modbus driver for modbus, the OPC UA driver
\* for opcua and the simulator driver for simulated and simulator, whatever
\* the form of the identifier (enum member or string, any letter case, plain
\* or ProtocolType.X), and for every other name, mqtt included, it raises the
\* unsupported-protocol error and builds no driver
C23_FactoryNormalizesAndDispatches ==
  lastCall.op = "get_driver" =>
    /\ lastCall.result =
         (IF lastCall.arg.name = "modbus" THEN "ModbusDriver"
          ELSE IF lastCall.arg.name = "opcua" THEN "OpcUaDriver"
          ELSE IF lastCall.arg.name \in {"simulated", "simulator"}
          THEN "SimulatorDriver"
          ELSE "ValueError")
    /\ lastCall.result = "ValueError" => lastCall.driver = 0
    /\ lastCall.result = "ModbusDriver" => lastCall.driver = Len(drivers)

\* C23 witness: the second call of a run, with the string
\* ProtocolType.MODBUS, has built the first Modbus driver
C23_Witness ==
  /\ lastCall.op = "get_driver"
  /\ lastCall.arg = [enum |-> FALSE, qualified |-> TRUE, upper |-> TRUE,
                     name |-> "modbus"]
  /\ lastCall.result = "ModbusDriver"
  /\ Len(drivers) = 1
  /\ nCalls = 2

\* the listener leaves the extraction of the current tag's value
LisExtracted == lisPc = "extract" /\ lisPc' # "extract"

\* C24: from a JSON object the listener extracts, for a tag with a field key
\* that the object holds with a numeric value, that value, and for a tag
\* without a field key the first field, in the order of the payload, whose
\* value is numeric; the reading then goes on to be persisted
C24_StructuredPayloadExtraction ==
  [][(LisExtracted /\ lisPayload.kind = "object") =>
       LET f == lisPayload.fields
           key == lisTags[lisIdx].json_key
       IN  \A i \in 1..Len(f) :
             (\/ key # "" /\ f[i].key = key /\ f[i].numeric
              \/ key = "" /\ f[i].numeric /\ \A j \in 1..(i - 1) : ~f[j].numeric) =>
               /\ lisPc' = "persist"
               /\ lisValue' = f[i].v]_vars

\* C24 witness: the object {"tmp": 50, "val": 95} gave 95 to the tag with the
\* field key val and 50 to the tag without a field key
C24_Witness ==
  /\ Len(inbox) > 0
  /\ inbox[1].payload = PairPayload(50, 95)
  /\ Len(inbox[1].tags) = 2
  /\ inbox[1].tags[1].json_key = "val"
  /\ inbox[1].tags[2].json_key = ""
  /\ metrics["lis"] = <<[tag_id |-> inbox[1].tags[1].id, value |-> 95],
                        [tag_id |-> inbox[1].tags[2].id, value |-> 50]>>

\* C25: in the fan-out of a reading a failed publish or a failed persistence
\* write is not retried and stops nothing. The publish step hands exactly one
\* event to the bus and, delivered or not, is followed by the persist step;
\* the persist step appends at most one Sample and, stored or not, is followed
\* by the alarm evaluation (a matching value with no open alarm opens one) and
\* by the next tag or the end of the cycle; no other step appends a Sample, so
\* a Sample whose write failed is lost
C25_FailedStepsAreSkippedNotRetried ==
  [][/\ (schedPc = "publish" /\ schedPc' # "publish") =>
          /\ Len(busEvents'["sched"]) = Len(busEvents["sched"]) + 1
          /\ schedPc' = "persist"
          /\ metrics' = metrics
     /\ SchedEvaluates =>
          /\ Len(metrics'["sched"]) \in {Len(metrics["sched"]), Len(metrics["sched"]) + 1}
          /\ busEvents' = busEvents
          /\ (EvChecked /\ EvMatch # "NORMAL" /\ activeAlarms[EvTag.id] = 0) =>
               /\ Len(alarmEvents') = Len(alarmEvents) + 1
               /\ schedPc' = "in_evaluate"
          /\ schedPc' \in {"read", "sleep", "in_evaluate"}
          /\ schedPc' \in {"read", "sleep"} =>
               schedIdx' = schedIdx + 1 /\ schedTags' = schedTags
     /\ schedPc # "persist" => metrics'["sched"] = metrics["sched"]]_vars

\* C25 witness: a cycle of two tags has reached its sleep; the first tag's
\* event was not delivered and its Sample was not stored, its alarm was opened
\* all the same, and the second tag has its event and its Sample
C25_Witness ==
  /\ schedPc = "sleep"
  /\ Len(schedTags) = 2
  /\ Len(busEvents["sched"]) = 2
  /\ busEvents["sched"][1].tag_id = schedTags[1].id
  /\ ~busEvents["sched"][1].delivered
  /\ busEvents["sched"][1].value = [kind |-> "value", v |-> 95]
  /\ metrics["sched"] = <<[tag_id |-> schedTags[2].id, value |-> 50]>>
  /\ Len(alarmEvents) = 1
  /\ alarmEvents[1].definition_id = schedTags[1].alarm_definition.id
  /\ alarmEvents[1].trigger_value = 95
  /\ busEvents["sched"][2].tag_id = schedTags[2].id
  /\ busEvents["sched"][2].delivered

\* the history of one definition as the evaluation produced it: its events
\* (trigger value and status) and the notifications of its tag, in order
RECURSIVE Filter(_, _, _)
Filter(seq, field, x) ==
  IF seq = <<>> THEN <<>>
  ELSE (IF Head(seq)[field] = x THEN <<Head(seq)>> ELSE <<>>)
         \o Filter(Tail(seq), field, x)

EventHistory(t) ==
  LET ev == Filter(alarmEvents, "definition_id", registry[t].alarm_definition.id)
  IN [i \in 1..Len(ev) |-> [trigger_value |-> ev[i].trigger_value,
                            status |-> ev[i].status,
                            resolved |-> ev[i].end_time # 0]]

NotifHistory(t) ==
  LET n == Filter(alarmNotifs, "alarm_id", t)
  IN [i \in 1..Len(n) |-> [severity |-> n[i].severity, limit |-> n[i].limit,
                           status |-> n[i].status]]

\* C26: the evaluation does not consult deadband: two definitions that differ
\* only in deadband, fed the same sequence of values, have at the end of every
\* cycle the same sequence of created and resolved AlarmEvents and of
\* notifications
C26_DeadbandIsNotConsulted ==
  (schedPc = "sleep" /\ Len(schedTags) = 2) =>
    /\ EventHistory(1) = EventHistory(2)
    /\ NotifHistory(1) = NotifHistory(2)

\* C26 witness: with deadbands 0 and 25 both definitions opened an event at
\* 80, resolved it at 50 (less than 25 below H = 70) and opened a second one
C26_Witness ==
  /\ schedPc = "sleep"
  /\ registry[1].alarm_definition.deadband = 0
  /\ registry[2].alarm_definition.deadband = 25
  /\ registry[1].alarm_definition.limits = FullLimits
  /\ [i \in 1..Len(metrics["sched"]) |-> metrics["sched"][i].value]
       = <<80, 80, 50, 50, 95, 95>>
  /\ Len(EventHistory(2)) = 2
  /\ EventHistory(2)[1].status = "RESOLVED"
  /\ EventHistory(2)[2].status = "ACTIVE_UNACK"
  /\ Len(NotifHistory(2)) = 3

\* a step that is a call of `op` on a driver
IsCall(op) == nCalls' = nCalls + 1 /\ lastCall'.op = op

\* C27: over any sequence of get_driver, connect, read, write and disconnect
\* calls of Modbus drivers that share keys, the cache holds at most one client
\* per key; a new client (a new transport connection) is made only when the
\* key has no cached client that is still open; and a disconnect closes no
\* transport and changes no cache entry
C27_SharedTransportPerKey ==
  [][ /\ \A p, q \in connections' : p[1] = q[1] => p = q
      /\ Len(clients') > Len(clients) =>
           LET key == clients'[Len(clients')].key
               old == Cached(connections, key)
           IN  old = 0 \/ ~clients[old].is_open
      /\ IsCall("disconnect") => UNCHANGED <<connections, clients>>
    ]_vars

\* C27 witness: two drivers of one key; the first connected and opened
\* client 1, the second connected and was given the same client without a
\* new one being made, and after the first driver's disconnect the client is
\* still open and still cached
C27_Witness ==
  /\ Len(drivers) = 2
  /\ drivers[1].key = drivers[2].key
  /\ drivers[1].key # NoKey
  /\ lastCall.op = "disconnect" /\ lastCall.driver = 1
  /\ ~drivers[1].connected
  /\ drivers[2].connected /\ drivers[2].client = 1
  /\ Len(clients) = 1 /\ clients[1].is_open
  /\ connections = {<<drivers[1].key, 1>>}

\* the scheduler's read of a Modbus tag returns, followed into the driver
PollReturns == schedPc = "reading" /\ schedPc' # "reading" /\ lastCall'.op = "poll"

\* the polled tag's host is missing from its configuration or its device is
\* unreachable
PolledUnreachable ==
  LET h == schedTags[schedIdx].connection_config.host
  IN  h = 0 \/ h \notin reachable

\* C28: when the device of a polled-register tag is unreachable or its host is
\* missing from the configuration, connect returns failure and read returns no
\* value without raising; the scheduler produces no event, no Sample and no
\* evaluation for the tag in that cycle, goes on to the next tag or the sleep,
\* and has the tag in the next cycle's snapshot
C28_UnreachableDeviceIsSkipped ==
  [][ (PollReturns /\ PolledUnreachable) =>
        /\ lastCall'.connect = "false"
        /\ lastCall'.result = "none"
        /\ UNCHANGED <<busEvents, metrics, engineVars>>
        /\ schedPc' \in {"read", "sleep"}
        /\ schedIdx' = schedIdx + 1
    ]_vars

\* the ids of the tags of the scheduler's snapshot
SnapshotIds == {schedTags[i].id : i \in 1..Len(schedTags)}

\* one step of the scheduler's cycle
CycleStep ==
  /\ schedPc = "fetch" =>
       /\ schedPc' \in {"fetch", "read", "backoff"}
       /\ schedPc' = "read" => schedTags' # <<>> /\ cycleTried' = {}
       /\ (schedPc' # "fetch" /\ schedTags' = <<>>) => schedPc' = "backoff"
  /\ schedPc = "backoff" =>
       /\ cycleTried = {}
       /\ schedPc' \in {"backoff", "fetch"}
  /\ schedPc = "sleep" =>
       /\ cycleTried = SnapshotIds
       /\ schedPc' \in {"sleep", "fetch"}
  /\ schedPc' = "fetch" => schedPc \in {"fetch", "sleep", "backoff"}
  /\ schedPc' = "sleep" => schedPc \notin {"fetch", "backoff"}

StaysPulled(t) ==
  registry[t].is_enabled /\ registry[t].source_protocol \in PullProtocols

C30_FailedReloadKeepsTheMap ==
  [][ /\ lastLoad' = "failed" => topicMap' = topicMap
      /\ Len(inbox') > Len(inbox) =>
           inbox'[Len(inbox')].tags
             = TagsForTopic(topicMap, inbox'[Len(inbox')].topic)
      /\ (lastLoad' = "ok" /\ (lastLoad # "ok" \/ topicMap' # topicMap)) =>
           topicMap' = BuildTopicMap(registry)
      /\ topicMap' # topicMap => lastLoad' = "ok"
    ]_vars

\* C30 witness: tag 2 has been moved to topic 2, the reload after that
\* failed, the map still holds both tags under topic 1 and is not subscribed
\* for topic 2, and a message of topic 1 has given both tags their Sample
C30_Witness ==
  /\ lastLoad = "failed"
  /\ registry[2].topic = 2
  /\ DOMAIN topicMap = {1}
  /\ Len(topicMap[1]) = 2
  /\ topicMap # BuildTopicMap(registry)
  /\ lisPc = "idle"
  /\ Len(inbox) = 1
  /\ Len(inbox[1].tags) = 2
  /\ Len(metrics["lis"]) = 2

\* C31: every canonical event published by the scheduler or by the listener
\* carries the five fields tag id, tag name, value, quality and timestamp, and
\* its quality is GOOD
C31_EventsCarryFiveFields ==
  \A k \in Tasks : \A i \in 1..Len(busEvents[k]) :
    /\ {"tag_id", "tag_name", "value", "quality"} \subseteq DOMAIN busEvents[k][i]
    /\ busEvents[k][i].has_timestamp
    /\ busEvents[k][i].quality = "GOOD"

\* C32: after any sequence of create_tag and update_tag requests, interleaved
\* or not, no two rows of the tags table have the same name, and a request
\* answered with the duplicate-name error leaves the table unchanged
C32_NamesStayUnique ==
  [][ /\ \A i, j \in 1..Len(tagRows') :
           tagRows'[i].name = tagRows'[j].name => i = j
      /\ (apiLast' # apiLast /\ apiLast'.status = 400) => tagRows' = tagRows
    ]_vars

\* C33: after any sequence of create_tag and update_tag requests, the
\* connection_config of every stored tag is valid for the tag's stored
\* protocol
C33_StoredConfigIsValid ==
  \A i \in 1..Len(tagRows) :
    ConfigValid(tagRows[i].source_protocol, tagRows[i].connection_config)

\* the tag object the scheduler hands to evaluate has no AlarmDefinition or an
\* inactive one
NotMonitored(tag) == tag.alarm_definition.id = 0 \/ ~tag.alarm_definition.is_active

\* C34: evaluate on a tag without an AlarmDefinition, or with an inactive
\* one, changes nothing: no AlarmEvent is created or resolved, nothing is
\* published or called back, and an event that was open for the tag stays open
\* with its status
C34_UnmonitoredTagChangesNothing ==
  [][ (SchedEvaluates /\ NotMonitored(schedTags[schedIdx])) =>
        /\ UNCHANGED <<alarmEvents, activeAlarms, alarmNotifs, callbackCalls>>
        /\ evPc'["sched"] = "idle"
        /\ evReturn'["sched"] = 0
    ]_vars

\* C34 witness: the tag's definition was made inactive while its event was
\* open; a later cycle has read the tag, stored the Sample and evaluated it,
\* and the event is still open and unacknowledged
C34_Witness ==
  /\ schedPc = "sleep"
  /\ Len(schedTags) = 1
  /\ ~schedTags[1].alarm_definition.is_active
  /\ schedTags[1].alarm_definition.id # 0
  /\ cycleReadOk = {schedTags[1].id}
  /\ Len(metrics["sched"]) = 2
  /\ metrics["sched"][2].value = 50
  /\ activeAlarms[schedTags[1].id] = 1
  /\ alarmEvents[1].status = "ACTIVE_UNACK"
  /\ Len(alarmNotifs) = 1

\* the alarm state of tag t: its entry of _active_alarms, the AlarmEvents of
\* its definition and the notifications published for it
AlarmStateOf(t) ==
  <<activeAlarms[t],
    Filter(alarmEvents, "definition_id", registry[t].alarm_definition.id),
    Filter(alarmNotifs, "alarm_id", t)>>

\* the scheduler's read of the current tag returns without a value
SchedReadFails ==
  /\ schedPc \in {"read", "reading"}
  /\ schedPc' \notin {"read", "reading", "publish"} \/ schedIdx' # schedIdx

\* C35: a read that fails or returns no value changes nothing in the alarm
\* engine, and within a cycle the alarm state of a tag (open event, resolved
\* events, notifications) changes only for the tag being processed and only
\* after its read returned a value in that cycle: a cycle in which the tag's
\* read gave no value leaves its alarm state as it was
C35_FailedReadLeavesAlarmState ==
  [][ /\ SchedReadFails => UNCHANGED engineVars
      /\ \A t \in Tags :
           AlarmStateOf(t)' # AlarmStateOf(t) =>
             /\ t \in cycleReadOk
             /\ schedTags[schedIdx].id = t
    ]_vars

\* C35 witness: tag 1 has an open event from an earlier cycle; in this cycle
\* its read gave no value, the cycle is over, and the event is still open with
\* the one notification that announced it
C35_Witness ==
  /\ schedPc = "sleep"
  /\ 1 \in cycleTried \ cycleReadOk
  /\ activeAlarms[1] = 1
  /\ alarmEvents[1].status = "ACTIVE_UNACK"
  /\ Len(alarmEvents) = 1
  /\ Len(Filter(alarmNotifs, "alarm_id", 1)) = 1

\* the statuses of the notifications published for tag t, in order
NotifStatuses(t) ==
  LET n == Filter(alarmNotifs, "alarm_id", t)
  IN  [i \in 1..Len(n) |-> n[i].status]

\* C36: for each tag the published alarm notifications alternate between
\* ACTIVE and NORMAL, starting with ACTIVE
C36_NotificationsAlternate ==
  \A t \in Tags : \A i \in 1..Len(NotifStatuses(t)) :
    NotifStatuses(t)[i] = (IF i % 2 = 1 THEN "ACTIVE" ELSE "NORMAL")

\* the ids of the tags a sequence of rows holds
IdsOf(rows) == {rows[i].id : i \in 1..Len(rows)}

\* tag t is a bus-topic tag of topic tp in the registry
OnTopic(reg, t, tp) == reg[t].source_protocol = "mqtt" /\ reg[t].topic = tp

\* a load_topic_map call has just succeeded
ReloadDone == lastLoad' = "ok" /\ (lastLoad # "ok" \/ topicMap' # topicMap)

\* C37: a reload leaves no tag under a topic the registry no longer gives it;
\* a message arriving on a topic (subscribed earlier and still subscribed) is
\* handed only to the tags the map holds for the topic, and only the tag in
\* hand gets a Sample, a canonical event or an alarm evaluation, so a tag whose
\* topic left the map gets none of them from messages of the old topic
C37_OldTopicReachesNoDroppedTag ==
  [][ /\ ReloadDone =>
           \A t \in Tags, tp \in Topics :
             ~OnTopic(registry, t, tp) => t \notin IdsOf(TagsForTopic(topicMap', tp))
      /\ Len(inbox') > Len(inbox) =>
           \A t \in Tags :
             t \notin IdsOf(TagsForTopic(topicMap, inbox'[Len(inbox')].topic)) =>
               /\ lisPc' = "extract" => t \notin IdsOf(lisTags')
               /\ UNCHANGED <<metrics, busEvents, engineVars>>
      /\ lisPc \in {"extract", "persist", "publish", "in_evaluate"} =>
           /\ lisTags[lisIdx].id \in IdsOf(inbox[Len(inbox)].tags)
           /\ lisPc' \in {"extract", "persist", "publish", "in_evaluate"} =>
                lisTags' = lisTags
           /\ metrics'["lis"] # metrics["lis"] =>
                metrics'["lis"][Len(metrics'["lis"])].tag_id = lisTags[lisIdx].id
           /\ busEvents'["lis"] # busEvents["lis"] =>
                busEvents'["lis"][Len(busEvents'["lis"])].tag_id = lisTags[lisIdx].id
      /\ lisPc \notin {"persist", "publish"} =>
           metrics'["lis"] = metrics["lis"] /\ busEvents'["lis"] = busEvents["lis"]
    ]_vars

\* C37 witness: tag 2 was moved from topic 1 to topic 2 and the map reloaded;
\* the session still subscribes topic 1 only; a message of topic 1 arrived
\* after that and gave tag 1 its Sample and its event, and tag 2 nothing
C37_Witness ==
  /\ registry[2].topic = 2
  /\ lastLoad = "ok"
  /\ DOMAIN topicMap = {1, 2}
  /\ IdsOf(topicMap[1]) = {1}
  /\ subscribed = {1}
  /\ Len(inbox) = 1
  /\ inbox[1].topic = 1
  /\ IdsOf(inbox[1].tags) = {1}
  /\ lisPc = "idle"
  /\ Len(metrics["lis"]) = 1
  /\ Len(busEvents["lis"]) = 1
  /\ \A i \in 1..Len(metrics["lis"]) : metrics["lis"][i].tag_id # 2
  /\ \A i \in 1..Len(busEvents["lis"]) : busEvents["lis"][i].tag_id # 2

\* C38: at no time do two calls of MQTTClient.publish hold a connected client
\* under the one client identifier of the configuration
C38_OneSessionPerIdentifier == Cardinality(sessions) <= 1

\* C39: the Samples appended, by the ingestion paths and by HistoryService
\* together, never outnumber the readings that went through fan-out: no
\* reading is persisted a second time from its canonical event
C39_OneSamplePerReading ==
  Len(metrics["sched"]) + Len(metrics["lis"]) + Len(histMetrics) <= nReadings
====
